---- MODULE Spec2Model ----
(***************************************************************************)
(* A model of the code generator's core: the API contract registry        *)
(* (core/contract_registry.py), the handler event bus (core/event_bus.py), *)
(* the per-component refinement loop (handlers/base_handler.py with        *)
(* handlers/node_handler.py and handlers/react_handler.py) and the         *)
(* cross-stack quality coordinator (core/quality_coordinator.py).          *)
(*                                                                         *)
(* Scores are kept in half points (10.0 is 20) so that every deduction of  *)
(* the validators (0.5, 1.0, 1.5, 2.0, 3.0) is an integer.                 *)
(***************************************************************************)
EXTENDS Integers, Sequences, FiniteSets, TLC

VARIABLES
    \* ---- APIContractRegistry (contract_registry.py:58-62) ----
    feature_contracts,   \* feature name -> FeatureContract
    endpoint_registry,   \* insertion-ordered dict "METHOD path" -> APIEndpoint
    model_registry,      \* insertion-ordered dict model name -> DataModel
    dependency_graph,    \* feature name -> set of feature names
    disk,                \* feature names whose contract file has been written
    reg_calls,           \* number of register_feature_contract calls so far
    reg_raised,          \* TRUE iff the last register call raised to its caller
    \* ---- HandlerEventBus (event_bus.py:30-34) ----
    subscribers,         \* event type -> list of callbacks
    event_history,       \* list of HandlerEvent
    active_correlations, \* correlation id -> list of event ids
    next_uuid,           \* number of uuid4() values drawn so far
    pubs,                \* the publish calls made so far, one record each
    ready,               \* the event loop's FIFO queue of callback tasks
    waiters,             \* the futures handed out by wait_for_event
    clock,               \* the event loop's time
    \* ---- Component Quality Validator called on one file ----
    validated,           \* the last _validate_single_file_quality call and its result
    \* ---- one generate_code call of a technology handler ----
    generation,          \* the handler and the arguments of the call
    pc,                  \* where the call is
    attempt,             \* loop variable of _claude_request_with_retry
    cycle,               \* loop variable of _refine_until_quality_met
    current_result,      \* the HandlerResult the call holds
    returned,            \* the HandlerResult the call returned
    raised,              \* message of the exception on its way to generate_code
    oracle_seen,         \* what the oracle did so far (history)
    best_assessed,       \* the highest score assessed in the call so far (history)
    generation_history,  \* the handler's list of the generations it finalized
    \* ---- QualityCoordinator ----
    checked,             \* the last API consistency check and its result
    \* ---- validator calls on whole file maps ----
    validations,         \* the _validate_code_quality calls made, with their reports
    \* ---- one validate_and_refine call of the QualityCoordinator ----
    refinement,          \* the arguments, the position and the reports of the call
    \* ---- one generation request served by main.py ----
    pipeline,            \* the endpoint, its position and the handler calls it made
    \* ---- one _claude_request_with_retry call ----
    request,             \* the wrapper, its position, its invocations and its sleeps
    \* ---- one _prepare_context_chunks call of a handler ----
    context_chunks       \* the chunks built and the chunks returned

regVars == <<feature_contracts, endpoint_registry, model_registry,
             dependency_graph, disk, reg_calls, reg_raised>>

busVars == <<subscribers, event_history, active_correlations, next_uuid,
             pubs, ready, waiters, clock>>

handlerVars == <<generation, pc, attempt, cycle, current_result, returned, raised, oracle_seen,
                 best_assessed, generation_history>>
vars == <<regVars, busVars, validated, handlerVars, checked, validations, refinement, pipeline, request, context_chunks>>

\* what the actions of one component leave alone
exceptRegistry == <<busVars, validated, handlerVars, checked, validations, refinement, pipeline, request, context_chunks>>
exceptBus == <<regVars, validated, handlerVars, checked, validations, refinement, pipeline, request, context_chunks>>
exceptValidator == <<regVars, busVars, handlerVars, checked, validations, refinement, pipeline, request, context_chunks>>
exceptCoordinator == <<regVars, busVars, validated, handlerVars, validations, refinement, pipeline, request, context_chunks>>
exceptRefinement == <<regVars, validated, handlerVars, checked, validations, pipeline, request, context_chunks>>

-----------------------------------------------------------------------------
(* Generic helpers *)

Range(s) == {s[i] : i \in 1..Len(s)}

SeqsUpTo(S, n) == UNION {[1..k -> S] : k \in 0..n}

Max(a, b) == IF a >= b THEN a ELSE b

\* Python string operations, on TLA+ strings
StartsWith(s, prefix) == Len(s) >= Len(prefix) /\ SubSeq(s, 1, Len(prefix)) = prefix
EndsWith(s, suffix) == Len(s) >= Len(suffix) /\ SubSeq(s, Len(s) - Len(suffix) + 1, Len(s)) = suffix
Contains(s, part) == \E i \in 1..(Len(s) + 1 - Len(part)) : SubSeq(s, i, i + Len(part) - 1) = part
LowerChar(c) ==
    CASE c = "A" -> "a" [] c = "B" -> "b" [] c = "C" -> "c" [] c = "D" -> "d" [] c = "E" -> "e"
      [] c = "F" -> "f" [] c = "G" -> "g" [] c = "H" -> "h" [] c = "I" -> "i" [] c = "J" -> "j"
      [] c = "K" -> "k" [] c = "L" -> "l" [] c = "M" -> "m" [] c = "N" -> "n" [] c = "O" -> "o"
      [] c = "P" -> "p" [] c = "Q" -> "q" [] c = "R" -> "r" [] c = "S" -> "s" [] c = "T" -> "t"
      [] c = "U" -> "u" [] c = "V" -> "v" [] c = "W" -> "w" [] c = "X" -> "x" [] c = "Y" -> "y"
      [] c = "Z" -> "z" [] OTHER -> c
RECURSIVE Lower(_)
Lower(s) == IF Len(s) = 0 THEN s ELSE LowerChar(SubSeq(s, 1, 1)) \o Lower(SubSeq(s, 2, Len(s)))

-----------------------------------------------------------------------------
(* ======================= APIContractRegistry ========================== *)

\* Bounds of the registry model
MaxEndpoints == 2      \* longest endpoint list of one contract
MaxDeps == 2           \* longest dependency list of one contract
MaxRegCalls == 2       \* register calls in one run (endpoint scenario)
MaxDepRegCalls == 3    \* register calls in one run (dependency scenario)

Features == {"A", "B", "C", "D"}
FeatureIdx == [f \in Features |-> CASE f = "A" -> 1 [] f = "B" -> 2 [] f = "C" -> 3 [] OTHER -> 4]
EndpointFeatures == {"A", "B"}
\* the endpoints a contract may declare: two methods on one path, and a second path
EndpointShapes == {<<"GET", "/x">>, <<"POST", "/x">>, <<"GET", "/y">>}
ModelNames == {"User"}

\* APIEndpoint (contract_registry.py:17-27); the description carries the
\* declaring feature, as NodeHandler._register_api_contracts builds it.
APIEndpoint(m, p, f) == [method |-> m, path |-> p, description |-> f \o " endpoint"]

\* DataModel (contract_registry.py:29-37)
DataModel(n) == [name |-> n, table_name |-> Lower(n) \o "s"]

\* FeatureContract (contract_registry.py:39-48); dependencies = <<>> stands
\* for both None and the empty list (both are falsy at line 88).
FeatureContract(f, eps, ms, deps) ==
    [feature_name |-> f, endpoints |-> eps, models |-> ms, dependencies |-> deps]

\* key = f"{endpoint.method} {endpoint.path}" (line 80)
EndpointKey(ep) == ep.method \o " " \o ep.path

\* Python dict assignment d[k] = v on an insertion-ordered dict, the dict
\* being a sequence of <<key, value>> pairs: an existing key keeps its
\* position and gets the new value, a new key is appended.
DictHas(d, k) == \E i \in 1..Len(d) : d[i][1] = k
DictSet(d, k, v) ==
    IF DictHas(d, k)
    THEN [i \in 1..Len(d) |-> IF d[i][1] = k THEN <<k, v>> ELSE d[i]]
    ELSE Append(d, <<k, v>>)
DictValues(d) == [i \in 1..Len(d) |-> d[i][2]]
DictKeys(d) == {d[i][1] : i \in 1..Len(d)}

\* lines 79-81: for endpoint in contract.endpoints: registry[key] = endpoint
RECURSIVE IndexEndpoints(_, _)
IndexEndpoints(reg, eps) ==
    IF eps = <<>> THEN reg
    ELSE IndexEndpoints(DictSet(reg, EndpointKey(Head(eps)), Head(eps)), Tail(eps))

\* lines 84-85: for model in contract.models: model_registry[model.name] = model
RECURSIVE IndexModels(_, _)
IndexModels(reg, ms) ==
    IF ms = <<>> THEN reg
    ELSE IndexModels(DictSet(reg, Head(ms).name, Head(ms)), Tail(ms))

\* lines 88-89: if contract.dependencies: graph[name] = set(dependencies)
GraphAfterRegister(graph, contract) ==
    IF contract.dependencies # <<>>
    THEN [f \in DOMAIN graph \cup {contract.feature_name} |->
            IF f = contract.feature_name THEN Range(contract.dependencies) ELSE graph[f]]
    ELSE graph

\* register_feature_contract (lines 73-94).  The in-memory updates of lines
\* 76-89 come first; _save_contract_to_disk (line 92) is the last call that
\* can fail, and its exception is not caught, so it reaches the caller.
register_feature_contract(contract, diskOk) ==
    /\ feature_contracts' =
         [f \in DOMAIN feature_contracts \cup {contract.feature_name} |->
            IF f = contract.feature_name THEN contract ELSE feature_contracts[f]]
    /\ endpoint_registry' = IndexEndpoints(endpoint_registry, contract.endpoints)
    /\ model_registry' = IndexModels(model_registry, contract.models)
    /\ dependency_graph' = GraphAfterRegister(dependency_graph, contract)
    /\ disk' = IF diskOk THEN disk \cup {contract.feature_name} ELSE disk
    /\ reg_raised' = ~diskOk
    /\ reg_calls' = reg_calls + 1

\* get_all_endpoints (lines 100-102): list(self.endpoint_registry.values())
get_all_endpoints == DictValues(endpoint_registry)

\* get_all_models (lines 104-106)
get_all_models == DictValues(model_registry)

\* _has_circular_dependency (lines 170-186).  visited is the one set object
\* shared by the whole recursion; the operator returns <<found, visited>> so
\* that the add on entry (179) and the remove on exit (185) are both modelled.
\* The loop over the dependencies stops at the first recursive call that
\* returns True (lines 182-183), leaving visited as that call left it.
RECURSIVE HasCircular(_, _, _)
RECURSIVE HasCircularLoop(_, _)
\* (mutation of HasCircularLoop: looks at the direct dependencies only)
HasCircularLoopNoDescent(deps, visited) == <<deps \cap visited # {}, visited>>
HasCircularLoop(deps, visited) ==
    IF deps = {} THEN <<FALSE, visited>>
    ELSE LET dep == CHOOSE d \in deps : \A e \in deps : FeatureIdx[d] <= FeatureIdx[e]
             r == IF dep \in DOMAIN dependency_graph
                  THEN HasCircular(dep, dependency_graph[dep], visited)
                  ELSE <<FALSE, visited>>
         IN IF r[1] THEN r ELSE HasCircularLoop(deps \ {dep}, r[2])
\* (mutation of VisitedOnExit: the feature is never removed again)
VisitedKept(visited, feature) == visited
VisitedOnExit(visited, feature) == visited \ {feature}
HasCircular(feature, dependencies, visited) ==
    IF feature \in visited THEN <<TRUE, visited>>
    ELSE LET r == HasCircularLoop(dependencies, visited \cup {feature})
         IN IF r[1] THEN r ELSE <<FALSE, VisitedOnExit(r[2], feature)>>

\* (mutation of _has_circular_dependency: only a self-dependency counts)
_has_self_dependency(feature, dependencies) == feature \in dependencies
_has_circular_dependency(feature, dependencies) == HasCircular(feature, dependencies, {})[1]

\* validate_cross_stack_consistency (lines 108-127)
NamingConflicts ==
    LET endpoint_paths == [i \in 1..Len(endpoint_registry) |-> endpoint_registry[i][2].path]
    IN IF Len(endpoint_paths) # Cardinality(Range(endpoint_paths))
       THEN {"Duplicate endpoint paths detected"} ELSE {}
DependencyConflicts ==
    {f \in DOMAIN dependency_graph : _has_circular_dependency(f, dependency_graph[f])}
validate_cross_stack_consistency ==
    [naming_conflicts |-> NamingConflicts,
     dependency_conflicts |-> {"Circular dependency in " \o f : f \in DependencyConflicts}]

\* ---- inputs of the registry scenarios ----
EndpointLists(f) ==
    SeqsUpTo({APIEndpoint(e[1], e[2], f) : e \in EndpointShapes}, MaxEndpoints)
ModelLists == SeqsUpTo({DataModel(n) : n \in ModelNames}, 1)
\* dependency lists without repetition, one per set of features
DepLists ==
    {s \in SeqsUpTo(Features, MaxDeps) :
        \A i \in 1..Len(s) : \A j \in 1..Len(s) : i < j => FeatureIdx[s[i]] < FeatureIdx[s[j]]}

\* Registration of a contract that declares endpoints and models
RegisterEndpoints ==
    /\ reg_calls < MaxRegCalls
    /\ \E f \in EndpointFeatures : \E eps \in EndpointLists(f) : \E ms \in ModelLists :
          register_feature_contract(FeatureContract(f, eps, ms, <<>>), TRUE)
    /\ UNCHANGED exceptRegistry

\* Registration of a contract while the contract file can or cannot be
\* written (_save_contract_to_disk, lines 156-168: write_text raises OSError)
RegisterOnStorage ==
    /\ reg_calls < MaxRegCalls
    /\ \E f \in EndpointFeatures : \E eps \in EndpointLists(f) : \E ms \in ModelLists :
       \E diskOk \in BOOLEAN :
          register_feature_contract(FeatureContract(f, eps, ms, <<>>), diskOk)
    /\ UNCHANGED exceptRegistry

\* Registration of a contract that declares dependencies
RegisterDependencies ==
    /\ reg_calls < MaxDepRegCalls
    /\ \E f \in Features : \E deps \in DepLists :
          register_feature_contract(FeatureContract(f, <<>>, <<>>, deps), TRUE)
    /\ UNCHANGED exceptRegistry

-----------------------------------------------------------------------------
(* ========================== HandlerEventBus =========================== *)

\* (mutation of HistoryAfter: the history is never trimmed)
HistoryUntrimmed(history, event) == Append(history, event)

\* Bounds of the event bus model
MaxSubscriptions == 2  \* subscribe calls in one run
MaxPublishes == 1      \* publish calls in one run
MaxClock == 2          \* the last instant of the event loop's clock
MaxTimeout == 1        \* the longest timeout given to wait_for_event
MaxWaitPublishes == 2  \* publish calls in one run with a waiting task
MaxEvicted == 2        \* events evicted from a full history in one run

max_history_size == 1000

EventTypes == {"X", "Y"}
WaiterOrder == <<"w1">>
WaiterIds == {WaiterOrder[i] : i \in DOMAIN WaiterOrder}
\* What a subscribed callback does when it is called: return, raise an
\* Exception, or raise a BaseException that `except Exception` lets through
\* (asyncio.CancelledError).
Behaviours == {"returns", "raises", "cancelled"}
HandlerCallback(b) == [kind |-> "handler", arg |-> b]
\* the closure `callback` of wait_for_event (lines 119-121) for future w
WaiterCallback(w) == [kind |-> "waiter", arg |-> w]
\* a handler callback that awaits publish(t, ...) and returns
PublisherCallback(t) == [kind |-> "publisher", arg |-> t]
\* who called publish: the callback task <<p, i>>, or no callback
NoCaller == <<0, 0>>

Uuid(n) == <<"uuid", n>>
NoCorrelation == <<"none", 0>>
GivenCorrelations == {<<"corr", 1>>}

\* HandlerEvent (lines 17-25); the payload is not modelled
HandlerEvent(id, type, source, corr) ==
    [event_id |-> id, event_type |-> type, source_handler |-> source, correlation_id |-> corr]

\* lines 49-56: event_id = uuid4(); correlation_id = correlation_id or uuid4()
NewEvent(uuids, type, source, corr) ==
    HandlerEvent(Uuid(uuids + 1), type, source,
                 IF corr = NoCorrelation THEN Uuid(uuids + 2) ELSE corr)
UuidsDrawn(corr) == IF corr = NoCorrelation THEN 2 ELSE 1

\* lines 59-61: append, then keep the last max_history_size events
HistoryAfter(history, event) ==
    LET h == Append(history, event)
    IN IF Len(h) > max_history_size
       THEN SubSeq(h, Len(h) - max_history_size + 1, Len(h))
       ELSE h

\* (mutation of CorrelationsAfter: the event is not tracked)
CorrelationsUntracked(corrs, event) == corrs
\* lines 64-66
CorrelationsAfter(corrs, event) ==
    [c \in DOMAIN corrs \cup {event.correlation_id} |->
        IF c = event.correlation_id
        THEN Append(IF c \in DOMAIN corrs THEN corrs[c] ELSE <<>>, event.event_id)
        ELSE corrs[c]]

\* line 71: self.subscribers.get(event_type, [])
SubscribersOf(type) == IF type \in DOMAIN subscribers THEN subscribers[type] ELSE <<>>

\* subscribe (lines 36-42)
SubscribersAfter(subs, type, callback) ==
    [t \in DOMAIN subs \cup {type} |->
        IF t = type THEN Append(IF t \in DOMAIN subs THEN subs[t] ELSE <<>>, callback)
        ELSE subs[t]]

\* _safe_callback (lines 84-92): what the task wrapping one callback ends
\* with.  `except Exception` catches and logs an Exception; a CancelledError
\* is not an Exception and ends the task.
_safe_callback(behaviour) ==
    CASE behaviour = "returns" -> "returned"
      [] behaviour = "raises" -> "logged"
      [] OTHER -> "exception"

\* (mutation of GatherRaises: gather without return_exceptions=True)
GatherRaisesFirst(results) == \E i \in DOMAIN results : results[i] = "exception"
\* line 80: await asyncio.gather(*tasks, return_exceptions=True) hands the
\* tasks' exceptions back as results and raises none of them.
GatherRaises(results) == FALSE

\* (mutation of GatherDone: the publisher resumes after the first task)
GatherDoneFirst(results) == \E i \in DOMAIN results : results[i] # "pending"
\* gather's future is done when every task is done
GatherDone(results) == \A i \in DOMAIN results : results[i] # "pending"

SubscriptionCount ==
    LET RECURSIVE Sum(_)
        Sum(T) == IF T = {} THEN 0
                  ELSE LET t == CHOOSE x \in T : TRUE IN Len(subscribers[t]) + Sum(T \ {t})
    IN Sum(DOMAIN subscribers)

\* subscribe(event_type, callback) by a handler
Subscribe ==
    /\ SubscriptionCount < MaxSubscriptions
    /\ \E t \in EventTypes : \E b \in Behaviours :
          subscribers' = SubscribersAfter(subscribers, t, HandlerCallback(b))
    /\ UNCHANGED <<event_history, active_correlations, next_uuid, pubs, ready, waiters, clock>>
    /\ UNCHANGED exceptBus

\* publish (lines 44-82) up to its first suspension point: the event is
\* built, stored and tracked, and one task per subscriber is created (lines
\* 73-76); without subscribers the call returns at once (lines 81-82), and
\* the callback that awaited it goes on and returns.  `queue` is the ready
\* queue the new tasks are put behind.
publish_from(t, source, corr, caller, queue) ==
    LET event == NewEvent(next_uuid, t, source, corr)
        subs == SubscribersOf(t)
        p == Len(pubs) + 1
        called == Append(pubs, [event |-> event, callbacks |-> subs,
                                results |-> [i \in 1..Len(subs) |-> "pending"],
                                state |-> IF subs = <<>> THEN "returned" ELSE "gathering",
                                caller |-> caller])
    IN /\ next_uuid' = next_uuid + UuidsDrawn(corr)
       /\ event_history' = HistoryAfter(event_history, event)
       /\ active_correlations' = CorrelationsAfter(active_correlations, event)
       /\ pubs' = IF caller # NoCaller /\ subs = <<>>
                  THEN [called EXCEPT ![caller[1]].results[caller[2]] = "returned"]
                  ELSE called
       /\ ready' = queue \o [i \in 1..Len(subs) |-> <<p, i>>]
       /\ waiters' = [w \in WaiterIds |->
                        IF waiters[w].state = "pending" /\ waiters[w].event_type = t
                        THEN [waiters[w] EXCEPT !.hit = TRUE,
                                                !.early = @ \/ waiters[w].timer = "sleeping"]
                        ELSE waiters[w]]
       /\ UNCHANGED <<subscribers, clock>>

\* publish called by a task that is no callback
publish(t, source, corr) == publish_from(t, source, corr, NoCaller, ready)

\* publish called by the system
Publish ==
    /\ Len(pubs) < MaxPublishes
    /\ \E t \in EventTypes : \E corr \in GivenCorrelations \cup {NoCorrelation} :
         publish(t, "system", corr)
    /\ UNCHANGED exceptBus

\* publish called while a task waits for an event
PublishWhileWaiting ==
    /\ Len(pubs) < MaxWaitPublishes
    /\ \E t \in EventTypes : \E corr \in GivenCorrelations \cup {NoCorrelation} :
         publish(t, "system", corr)
    /\ UNCHANGED exceptBus

\* publish called again and again until the history is full and beyond; the
\* calls that fill the history publish one kind of event, the calls at the
\* limit any kind.
PublishSeries ==
    /\ Len(pubs) < max_history_size + MaxEvicted
    /\ LET atLimit == Len(pubs) + 1 >= max_history_size
       IN \E t \in (IF atLimit THEN EventTypes ELSE {"X"}) :
          \E corr \in (IF atLimit THEN GivenCorrelations ELSE {}) \cup {NoCorrelation} :
             publish(t, "system", corr)
    /\ UNCHANGED exceptBus

\* (mutation of done: a future that never reports itself done)
done_never(state) == FALSE
\* asyncio.Future.done() as wait_for_event's callback asks it (line 120)
done(state) == state \in {"event", "timeout"}

\* The entry of the event loop's ready queue for the timeout task of future w
\* (line 125); entries <<p, i>> with p >= 1 are the callback tasks of publish p.
TimerTask(w) == <<0, CHOOSE i \in DOMAIN WaiterOrder : WaiterOrder[i] = w>>
IsTimerTask(task) == task[1] = 0

\* The event loop runs the oldest ready task: _safe_callback(callback, event)
\* (lines 84-92).  A waiter's callback resolves its future unless it is done
\* (lines 119-121).
RunCallback ==
    /\ ready # <<>>
    /\ ~IsTimerTask(Head(ready))
    /\ LET p == Head(ready)[1]
           i == Head(ready)[2]
           cb == pubs[p].callbacks[i]
       IN /\ cb.kind # "publisher"
          /\ ready' = Tail(ready)
          /\ pubs' = [pubs EXCEPT ![p].results[i] =
                         IF cb.kind = "handler" THEN _safe_callback(cb.arg) ELSE "returned"]
          /\ waiters' = IF cb.kind = "waiter" /\ ~done(waiters[cb.arg].state)
                        THEN [waiters EXCEPT ![cb.arg].state = "event",
                                             ![cb.arg].result = pubs[p].event]
                        ELSE waiters
    /\ UNCHANGED <<subscribers, event_history, active_correlations, next_uuid, clock>>
    /\ UNCHANGED exceptBus

\* A callback that publishes "Y" is subscribed to "X", or a callback that
\* returns is subscribed to "Y"
SubscribePublisher ==
    /\ SubscriptionCount < MaxSubscriptions
    /\ \E sub \in {<<"X", PublisherCallback("Y")>>, <<"Y", HandlerCallback("returns")>>} :
         subscribers' = SubscribersAfter(subscribers, sub[1], sub[2])
    /\ UNCHANGED <<event_history, active_correlations, next_uuid, pubs, ready, waiters, clock>>
    /\ UNCHANGED exceptBus

\* publish called by tasks that run concurrently
PublishConcurrently ==
    /\ Cardinality({p \in 1..Len(pubs) : pubs[p].caller = NoCaller}) < MaxWaitPublishes
    /\ \E t \in EventTypes : \E corr \in GivenCorrelations \cup {NoCorrelation} :
         publish(t, "system", corr)
    /\ UNCHANGED exceptBus

\* The event loop runs the task of a callback that publishes: the callback
\* calls publish with the correlation of its event and awaits it
RunPublisher ==
    /\ ready # <<>>
    /\ ~IsTimerTask(Head(ready))
    /\ LET p == Head(ready)[1]
           i == Head(ready)[2]
           cb == pubs[p].callbacks[i]
       IN /\ cb.kind = "publisher"
          /\ publish_from(cb.arg, "handler", pubs[p].event.correlation_id, <<p, i>>, Tail(ready))
    /\ UNCHANGED exceptBus

\* The publisher resumes from `await asyncio.gather(...)` (line 80) and
\* publish returns, or raises what gather raises.
PublishReturn ==
    /\ \E p \in 1..Len(pubs) :
         /\ pubs[p].state = "gathering"
         /\ GatherDone(pubs[p].results)
         /\ LET returns == [pubs EXCEPT ![p].state =
                               IF GatherRaises(pubs[p].results) THEN "raised" ELSE "returned"]
                caller == pubs[p].caller
            IN pubs' = IF caller = NoCaller THEN returns
                       ELSE [returns EXCEPT ![caller[1]].results[caller[2]] =
                               IF GatherRaises(pubs[p].results) THEN "logged" ELSE "returned"]
    /\ UNCHANGED <<subscribers, event_history, active_correlations, next_uuid, ready, waiters, clock>>
    /\ UNCHANGED exceptBus

\* (mutation of TimeoutOutcome: the timeout task leaves the future alone)
TimeoutIgnored(state) == state
\* _timeout_future after its sleep (lines 133-134)
TimeoutOutcome(state) == IF state = "pending" THEN "timeout" ELSE state

\* wait_for_event (lines 115-128): a new future, its callback subscribed,
\* and the timeout task created
WaitForEvent ==
    /\ \E w \in WaiterIds : \E t \in EventTypes : \E timeout \in 1..MaxTimeout :
         /\ waiters[w].state = "none"
         /\ clock + timeout <= MaxClock
         /\ waiters' = [waiters EXCEPT ![w] = [state |-> "pending", event_type |-> t,
                                               deadline |-> clock + timeout,
                                               timer |-> "sleeping", result |-> <<>>,
                                               hit |-> FALSE, early |-> FALSE,
                                               since |-> Len(pubs)]]
         /\ subscribers' = SubscribersAfter(subscribers, t, WaiterCallback(w))
    /\ UNCHANGED <<event_history, active_correlations, next_uuid, pubs, ready, clock>>
    /\ UNCHANGED exceptBus

\* The sleep of _timeout_future (line 132) is over: the event loop moves the
\* sleep's timer behind the tasks that are ready (asyncio runs them in the
\* order in which they became ready).
TimerDue ==
    /\ \E w \in WaiterIds :
         /\ waiters[w].timer = "sleeping"
         /\ clock >= waiters[w].deadline
         /\ waiters' = [waiters EXCEPT ![w].timer = "due"]
         /\ ready' = Append(ready, TimerTask(w))
    /\ UNCHANGED <<subscribers, event_history, active_correlations, next_uuid, pubs, clock>>
    /\ UNCHANGED exceptBus

\* The timer runs and resolves the sleep, which makes the timeout task ready
\* behind the tasks that are ready by then.
SleepOver ==
    /\ ready # <<>>
    /\ \E w \in WaiterIds :
         /\ Head(ready) = TimerTask(w)
         /\ waiters[w].timer = "due"
         /\ waiters' = [waiters EXCEPT ![w].timer = "waking"]
         /\ ready' = Append(Tail(ready), TimerTask(w))
    /\ UNCHANGED <<subscribers, event_history, active_correlations, next_uuid, pubs, clock>>
    /\ UNCHANGED exceptBus

\* _timeout_future (lines 130-134) resumes after its sleep
TimeoutFire ==
    /\ ready # <<>>
    /\ \E w \in WaiterIds :
         /\ Head(ready) = TimerTask(w)
         /\ waiters[w].timer = "waking"
         /\ waiters' = [waiters EXCEPT ![w].timer = "done",
                                       ![w].state = TimeoutOutcome(waiters[w].state)]
         /\ ready' = Tail(ready)
    /\ UNCHANGED <<subscribers, event_history, active_correlations, next_uuid, pubs, clock>>
    /\ UNCHANGED exceptBus

\* Time passes; a sleep that is over has its timer made ready before time
\* moves on.
Tick ==
    /\ clock < MaxClock
    /\ \A w \in WaiterIds : waiters[w].timer = "sleeping" => clock < waiters[w].deadline
    /\ clock' = clock + 1
    /\ UNCHANGED <<subscribers, event_history, active_correlations, next_uuid, pubs, ready, waiters>>
    /\ UNCHANGED exceptBus

\* handlers subscribing and publishing
NextBus == Subscribe \/ Publish \/ RunCallback \/ PublishReturn
\* tasks waiting for events while others publish
NextBusWait ==
    \/ WaitForEvent \/ PublishWhileWaiting \/ RunCallback \/ PublishReturn
    \/ TimerDue \/ SleepOver \/ TimeoutFire \/ Tick
\* concurrent publish calls, some of them made by callbacks
NextBusConcurrent ==
    \/ SubscribePublisher \/ PublishConcurrently
    \/ RunCallback \/ RunPublisher \/ PublishReturn

-----------------------------------------------------------------------------
(* ==================== Component Quality Validators ==================== *)

\* Bound of the validator model
MaxBraces == 2         \* most '{' and most '}' in one file

MinFileLength == 100

\* A file's text is modelled by what the validators read from it: the
\* quality patterns that re.search finds in it, the length of its stripped
\* text, and its numbers of '{' and '}'.
NodePatterns == {"error_handling", "validation", "security", "async_await",
                 "logging", "middleware", "status_codes"}
ReactPatterns == {"error_handling", "loading_states", "typescript_types",
                  "proper_hooks", "accessibility", "security"}
\* and by what the contract extraction reads from it: the routes and the API
\* calls its regular expressions find.
Content(ps, n, o, c, rs, calls) ==
    [patterns |-> ps, length |-> n, opens |-> o, closes |-> c, routes |-> rs, api_calls |-> calls]

FilePaths ==
    {"src/controllers/authController.js", "src/routes/users.js", "src/app.js",
     "src/config/database.js", "database/migrations/001_create_users.sql",
     ".env.example", "src/components/LoginForm.tsx", "src/hooks/useAuth.ts"}

\* One deduction of a validator: whether the check fails, the points (in
\* half points) it takes and the issue it appends.
Check(fails, penalty, issue) == [fails |-> fails, penalty |-> penalty, issue |-> issue]
RECURSIVE Deducted(_)
Deducted(checks) ==
    IF checks = <<>> THEN 0
    ELSE (IF Head(checks).fails THEN Head(checks).penalty ELSE 0) + Deducted(Tail(checks))
RECURSIVE IssuesOf(_)
IssuesOf(checks) ==
    IF checks = <<>> THEN <<>>
    ELSE (IF Head(checks).fails THEN <<Head(checks).issue>> ELSE <<>>) \o IssuesOf(Tail(checks))
\* (mutation of FileScore: the deductions are not floored)
FileScoreUnfloored(file_path, checks) ==
    [score |-> 20 - Deducted(checks), issues |-> IssuesOf(checks), file_path |-> file_path]
\* return {"score": max(0, score), "issues": issues, "file_path": file_path}
FileScore(file_path, checks) ==
    [score |-> Max(0, 20 - Deducted(checks)), issues |-> IssuesOf(checks), file_path |-> file_path]

\* len(content.strip()) < 100
TooShort(content) == content.length < MinFileLength
\* (mutation of BracketMismatch: only an unclosed '{' counts)
BracketUnclosed(content) == content.opens > content.closes
\* content.count('{') != content.count('}')
BracketMismatch(content) == content.opens # content.closes

\* NodeHandler._validate_single_file_quality (node_handler.py:299-362)
NodeSkipsFile(file_path) == EndsWith(file_path, ".sql") \/ EndsWith(file_path, ".env.example")
NodeChecks(file_path, content) ==
    LET lower == Lower(file_path)
        has(p) == p \in content.patterns
    IN << Check(~has("error_handling"), 4, "CRITICAL: No error handling in " \o file_path),
          Check((Contains(lower, "controller") \/ Contains(lower, "route")) /\ ~has("validation"),
                3, "CRITICAL: No input validation in " \o file_path),
          Check((Contains(lower, "auth") \/ Contains(lower, "security")) /\ ~has("security"),
                3, "CRITICAL: Missing security patterns in " \o file_path),
          Check(~has("async_await") /\ ~Contains(lower, "config"),
                2, "Missing async/await patterns in " \o file_path),
          Check(~has("logging"), 1, "Missing logging in " \o file_path),
          Check(Contains(lower, "controller") /\ ~has("status_codes"),
                2, "Missing proper HTTP responses in " \o file_path),
          Check((Contains(file_path, "app.js") \/ Contains(file_path, "server.js"))
                   /\ ~has("middleware"),
                2, "Missing middleware setup in " \o file_path),
          Check(TooShort(content), 6, "CRITICAL: File too short/incomplete " \o file_path),
          Check(BracketMismatch(content), 4, "CRITICAL: Bracket mismatch in " \o file_path) >>
NodeValidateSingleFile(file_path, content) ==
    IF NodeSkipsFile(file_path)
    THEN [score |-> 20, issues |-> <<>>, file_path |-> file_path]
    ELSE FileScore(file_path, NodeChecks(file_path, content))

\* ReactHandler._validate_single_file_quality (react_handler.py:261-316)
ReactChecks(file_path, content) ==
    LET lower == Lower(file_path)
        has(p) == p \in content.patterns
    IN << Check((EndsWith(file_path, ".tsx") \/ EndsWith(file_path, ".ts"))
                   /\ ~has("typescript_types"),
                2, "Missing TypeScript types in " \o file_path),
          Check((Contains(lower, "component") \/ Contains(lower, "hook")) /\ ~has("proper_hooks"),
                2, "Missing proper hooks usage in " \o file_path),
          Check(~has("error_handling"), 3, "CRITICAL: No error handling in " \o file_path),
          Check(Contains(lower, "component") /\ ~has("loading_states"),
                2, "Missing loading states in " \o file_path),
          Check(Contains(lower, "component") /\ ~has("accessibility"),
                1, "Missing accessibility features in " \o file_path),
          Check((Contains(lower, "form") \/ Contains(lower, "input")) /\ ~has("security"),
                2, "Missing security validation in " \o file_path),
          Check(TooShort(content), 6, "CRITICAL: File too short/incomplete " \o file_path),
          Check(BracketMismatch(content), 4, "CRITICAL: Bracket mismatch in " \o file_path) >>
ReactValidateSingleFile(file_path, content) == FileScore(file_path, ReactChecks(file_path, content))

\* The texts given to a validator in the single-file scenario
FileContents(patterns) ==
    {Content(ps, n, o, c, <<>>, <<>>) : ps \in SUBSET patterns, n \in {MinFileLength - 1, MinFileLength},
                            o \in 0..MaxBraces, c \in 0..MaxBraces}

\* The backend validator is called on one file (the validators keep no state
\* between calls, so one call per behaviour covers every call)
ValidateNodeFile ==
    /\ validated.handler = "none"
    /\ \E file_path \in FilePaths : \E content \in FileContents(NodePatterns) :
         validated' = [handler |-> "node_backend", file_path |-> file_path, content |-> content,
                       result |-> NodeValidateSingleFile(file_path, content)]
    /\ UNCHANGED exceptValidator

\* The frontend validator is called on one file
ValidateReactFile ==
    /\ validated.handler = "none"
    /\ \E file_path \in FilePaths : \E content \in FileContents(ReactPatterns) :
         validated' = [handler |-> "react_frontend", file_path |-> file_path, content |-> content,
                       result |-> ReactValidateSingleFile(file_path, content)]
    /\ UNCHANGED exceptValidator

NextValidator == ValidateNodeFile \/ ValidateReactFile

-----------------------------------------------------------------------------
(* ============== Technology handlers: generate_code =================== *)

\* Bound of the handler model
MaxResponseFiles == 1  \* most files in one oracle response

max_refinement_cycles == 5
max_retries == 3

HandlerTypes == {"node_backend", "react_frontend"}
\* quality_target, in half points (8.0 and 9.5)
QualityTargets == {16, 19}
GenerationFeatures == <<"A">>

\* The files an oracle response can hold
GeneratedPaths == {"src/routes/users.js", "src/components/App.tsx"}
FairContent == Content({"error_handling"}, MinFileLength, 1, 1, <<>>, <<>>)
GoodContent ==
    Content(NodePatterns \cup ReactPatterns, MinFileLength, 1, 1,
            << <<"GET", "/api/users">> >>, <<"/api/users">>)
GeneratedContents == {FairContent, GoodContent}

\* An oracle response text: a JSON object of path -> text (kind "json"), or
\* text without a JSON object, holding the file blocks `files` (kind "text")
Response(kind, files) == [kind |-> kind, files |-> files]
FileDicts ==
    {d \in SeqsUpTo(GeneratedPaths \X GeneratedContents, MaxResponseFiles) :
        \A i, j \in 1..Len(d) : d[i][1] = d[j][1] => i = j}
Responses == {Response("json", d) : d \in FileDicts} \cup {Response("text", <<>>)}

\* What one oracle invocation does: return a response, raise an overload or
\* rate-limit error, or raise another error
Outcome(kind, response) == [kind |-> kind, response |-> response]
NoOutcome == Outcome("none", Response("text", <<>>))
Overloaded == Outcome("overloaded", Response("text", <<>>))
PermanentError == Outcome("error", Response("text", <<>>))

\* The fallback files (node_handler.py:578-649, react_handler.py:473-506),
\* with what the handler's own patterns find in them
BasicStructure(handler_type) ==
    IF handler_type = "node_backend"
    THEN << <<"src/app.js",
              Content({"logging", "middleware", "security", "status_codes"}, 619, 6, 6, <<>>, <<>>)>>,
            <<"src/server.js", Content({"logging"}, 347, 4, 4, <<>>, <<>>)>>,
            <<"package.json", Content({"logging", "security"}, 525, 4, 4, <<>>, <<>>)>> >>
    ELSE << <<"src/components/App.tsx", Content({}, 322, 1, 1, <<>>, <<>>)>>,
            <<"src/index.tsx", Content({}, 273, 0, 0, <<>>, <<>>)>> >>

\* _extract_code_blocks_fallback: the file blocks found, or the basic
\* structure when there is none
_extract_code_blocks_fallback(handler_type, response) ==
    IF response.files = <<>> THEN BasicStructure(handler_type) ELSE response.files

\* _parse_node_response / _parse_react_response: a JSON object whose keys and
\* values are strings is returned as it is, the empty object included
_parse_response(handler_type, response) ==
    IF response.kind = "json" THEN response.files
    ELSE _extract_code_blocks_fallback(handler_type, response)

\* self._validate_single_file_quality of the handler
ValidateSingleFileOf(handler_type, file_path, content) ==
    IF handler_type = "node_backend" THEN NodeValidateSingleFile(file_path, content)
    ELSE ReactValidateSingleFile(file_path, content)
\* Its results for the files of the oracle responses and of the basic
\* structures, computed once (@@ builds the table of the values)
KnownFiles ==
    (GeneratedPaths \X GeneratedContents)
    \cup Range(BasicStructure("node_backend")) \cup Range(BasicStructure("react_frontend"))
KnownFileQuality ==
    [x \in HandlerTypes \X KnownFiles |-> ValidateSingleFileOf(x[1], x[2][1], x[2][2])] @@ <<>>
_validate_single_file_quality(handler_type, file_path, content) ==
    IF <<file_path, content>> \in KnownFiles
    THEN KnownFileQuality[<<handler_type, <<file_path, content>>>>]
    ELSE ValidateSingleFileOf(handler_type, file_path, content)

\* A quality score is kept as the fraction total / files, in half points
Score(total, files) == [total |-> total, files |-> files]
ZeroScore == Score(0, 0)
RECURSIVE TotalScore(_, _)
TotalScore(handler_type, code_files) ==
    IF code_files = <<>> THEN 0
    ELSE _validate_single_file_quality(handler_type, Head(code_files)[1], Head(code_files)[2]).score
         + TotalScore(handler_type, Tail(code_files))
\* _validate_code_quality: overall_score = total_score / len(code_files) if code_files else 0
_validate_code_quality(handler_type, code_files) ==
    IF code_files = <<>> THEN ZeroScore
    ELSE Score(TotalScore(handler_type, code_files), Len(code_files))
\* (mutation of ScoreBelow: the score is not looked at)
ScoreIgnored(score, target) == TRUE
\* score < quality_target
ScoreBelow(score, target) ==
    IF score.files = 0 THEN 0 < target ELSE score.total < target * score.files
\* one score is less than another
ScoreLess(a, b) == a.total * Max(b.files, 1) < b.total * Max(a.files, 1)
\* the higher of two scores
HigherScore(a, b) == IF ScoreLess(a, b) THEN b ELSE a

\* final_code = current_result.code_files.copy(); final_code.update(improved_code)
RECURSIVE DictUpdate(_, _)
DictUpdate(d, other) ==
    IF other = <<>> THEN d
    ELSE DictUpdate(DictSet(d, Head(other)[1], Head(other)[2]), Tail(other))

\* _extract_node_contracts: the routes of the files whose path has 'route'
\* or 'controller'
RECURSIVE NodeEndpoints(_)
NodeEndpoints(code_files) ==
    IF code_files = <<>> THEN <<>>
    ELSE LET file_path == Head(code_files)[1]
             content == Head(code_files)[2]
             lower == Lower(file_path)
         IN (IF Contains(lower, "route") \/ Contains(lower, "controller")
             THEN [i \in 1..Len(content.routes) |->
                     [method |-> content.routes[i][1], path |-> content.routes[i][2],
                      file |-> file_path]]
             ELSE <<>>) \o NodeEndpoints(Tail(code_files))
\* _extract_react_contracts: the API calls of every file
RECURSIVE ReactApiCalls(_)
ReactApiCalls(code_files) ==
    IF code_files = <<>> THEN <<>>
    ELSE LET file_path == Head(code_files)[1]
             content == Head(code_files)[2]
         IN [i \in 1..Len(content.api_calls) |->
               [endpoint |-> content.api_calls[i], file |-> file_path]]
            \o ReactApiCalls(Tail(code_files))
Contracts(endpoints, calls) == [api_endpoints |-> endpoints, api_calls |-> calls]
_extract_contracts(handler_type, code_files) ==
    IF handler_type = "node_backend" THEN Contracts(NodeEndpoints(code_files), <<>>)
    ELSE Contracts(<<>>, ReactApiCalls(code_files))

HandlerResult(success, handler_type, features, code_files, contracts, score, error, cycles) ==
    [success |-> success, handler_type |-> handler_type, features_implemented |-> features,
     code_files |-> code_files, contracts |-> contracts, quality_score |-> score,
     error_message |-> error, refinement_cycles |-> cycles]
NoResult == HandlerResult(FALSE, "none", <<>>, <<>>, Contracts(<<>>, <<>>), ZeroScore, "", 0)

\* _apply_improvements, lines 512-541: the result built from the response
ImprovedResult(response) ==
    LET handler_type == generation.handler_type
        final_code == DictUpdate(current_result.code_files, _parse_response(handler_type, response))
    IN HandlerResult(TRUE, handler_type, current_result.features_implemented, final_code,
                     _extract_contracts(handler_type, final_code),
                     _validate_code_quality(handler_type, final_code), "",
                     current_result.refinement_cycles)

\* _build_improvement_prompt (node_handler.py:465-467, react_handler.py:
\* 370-372): the issues written under IDENTIFIED ISSUES are
\* current_result.contracts.get("quality_issues", [])
PromptIssues(result) ==
    IF "quality_issues" \in DOMAIN result.contracts
    THEN result.contracts.quality_issues ELSE <<>>

\* (mutation of BudgetLeft: one cycle more)
BudgetLeftInclusive(c) == c <= max_refinement_cycles
\* base_handler.py:289: cycle < self.max_refinement_cycles
BudgetLeft(c) == c < max_refinement_cycles

\* node_handler.py:571-574: an error that is not an overload is logged, and
\* raised only by the last attempt
PermanentRaised(a) == a = max_retries - 1

\* The history of the oracle after one more outcome; the last outcome is
\* kept up to the next test of the refinement loop
Seen(outcome, requestRaised) ==
    [first |-> IF oracle_seen.first = NoOutcome THEN outcome ELSE oracle_seen.first,
     constant |-> oracle_seen.first = NoOutcome
                     \/ (oracle_seen.constant /\ outcome = oracle_seen.first),
     request_failed |-> oracle_seen.request_failed \/ requestRaised,
     last |-> outcome]

\* _register_api_contracts (node_handler.py:420-459) for the one feature:
\* every extracted endpoint carries the feature list, so all are registered
\* under it; no models are extracted from these files
_register_api_contracts(features, contracts, diskOk) ==
    LET feature == features[1]
        feature_endpoints ==
            [i \in 1..Len(contracts.api_endpoints) |->
                APIEndpoint(contracts.api_endpoints[i].method, contracts.api_endpoints[i].path, feature)]
    IN IF feature_endpoints # <<>>
       THEN register_feature_contract(FeatureContract(feature, feature_endpoints, <<>>, <<>>), diskOk)
       ELSE UNCHANGED regVars

\* TechnologyHandler.__init__ and generate_code up to the oracle request:
\* the handler subscribes to its three events, draws a correlation id, and
\* _generate_with_chunked_context raises if it has no client
HandlerStart ==
    /\ pc = "idle"
    /\ \E handler_type \in HandlerTypes : \E target \in QualityTargets : \E client \in BOOLEAN :
         /\ generation' = [handler_type |-> handler_type, quality_target |-> target,
                           correlation_id |-> Uuid(next_uuid + 1), features |-> GenerationFeatures]
         /\ subscribers' =
              SubscribersAfter(
                SubscribersAfter(
                  SubscribersAfter(subscribers, "generation_started", HandlerCallback("returns")),
                  "contracts_established", HandlerCallback("returns")),
                "quality_validation_required", HandlerCallback("returns"))
         /\ IF client THEN pc' = "generate" /\ raised' = ""
            ELSE pc' = "failing" /\ raised' = "Claude client not initialized"
    /\ next_uuid' = next_uuid + 1
    /\ attempt' = 0
    /\ UNCHANGED <<cycle, current_result, returned, oracle_seen, best_assessed, generation_history>>
    /\ UNCHANGED <<event_history, active_correlations, pubs, ready, waiters, clock>>
    /\ UNCHANGED <<regVars, validated, checked, validations, refinement, pipeline, request, context_chunks>>

\* _generate_with_chunked_context after the response (node_handler.py:72-89,
\* react_handler.py:68-83), then generate_code's test of the score (line 88)
GenerationReturns(response, diskOk) ==
    LET handler_type == generation.handler_type
        parsed_code == _parse_response(handler_type, response)
        quality == _validate_code_quality(handler_type, parsed_code)
        contracts == _extract_contracts(handler_type, parsed_code)
        registers == handler_type = "node_backend" /\ contracts.api_endpoints # <<>>
    IN /\ IF handler_type = "node_backend"
          THEN _register_api_contracts(generation.features, contracts, diskOk)
          ELSE UNCHANGED regVars
       /\ IF registers /\ ~diskOk
          THEN /\ pc' = "failing"
               /\ raised' = "contract file not written"
               /\ UNCHANGED <<current_result, best_assessed>>
          ELSE /\ pc' = IF ScoreBelow(quality, generation.quality_target)
                        THEN "refine" ELSE "finalize"
               /\ current_result' = HandlerResult(TRUE, handler_type, generation.features,
                                                  parsed_code, contracts, quality, "", 0)
               /\ best_assessed' = quality
               /\ UNCHANGED raised
       /\ UNCHANGED busVars

\* _refine_until_quality_met after _apply_improvements (base_handler.py:
\* 301-310): the cycle is recorded and the refinement event published; its
\* data are `cycle` and the quality_score of current_result after this step
CycleCompleted(improved_result) ==
    /\ current_result' = [improved_result EXCEPT !.refinement_cycles = cycle]
    /\ best_assessed' = HigherScore(best_assessed, improved_result.quality_score)
    /\ publish("refinement_cycle_completed", generation.handler_type, generation.correlation_id)
    /\ pc' = "refine"
    /\ UNCHANGED <<raised, regVars>>

\* _claude_request_with_retry raises: _generate_with_chunked_context raises
\* it again (node_handler.py:91-93), _apply_improvements logs it and returns
\* current_result (node_handler.py:546-548)
RequestRaises(message) ==
    IF pc = "generate"
    THEN /\ pc' = "failing"
         /\ raised' = message
         /\ UNCHANGED <<current_result, best_assessed, busVars, regVars>>
    ELSE CycleCompleted(current_result)

\* the for loop of _claude_request_with_retry goes on
NextAttempt ==
    /\ attempt' = attempt + 1
    /\ UNCHANGED <<pc, raised, current_result, best_assessed, busVars, regVars>>

\* One oracle invocation returns a response (node_handler.py:557-564)
OracleResponds ==
    /\ pc \in {"generate", "improve"}
    /\ \E response \in Responses : \E diskOk \in (IF pc = "generate" THEN BOOLEAN ELSE {TRUE}) :
         /\ oracle_seen' = Seen(Outcome("response", response), FALSE)
         /\ IF pc = "generate" THEN GenerationReturns(response, diskOk)
            ELSE CycleCompleted(ImprovedResult(response))
    /\ attempt' = 0
    /\ UNCHANGED <<generation, generation_history, cycle, returned, validated, checked, validations, refinement, pipeline, request, context_chunks>>

\* One oracle invocation raises an overload or rate-limit error
\* (node_handler.py:566-570); after the last attempt the loop ends and
\* "Max retries exceeded" is raised (line 576).  The sleeps change no state.
OracleOverloaded ==
    /\ pc \in {"generate", "improve"}
    /\ LET last == attempt + 1 >= max_retries
       IN /\ oracle_seen' = Seen(Overloaded, last)
          /\ IF last
             THEN RequestRaises("Max retries exceeded for Claude API") /\ attempt' = 0
             ELSE NextAttempt
    /\ UNCHANGED <<generation, generation_history, cycle, returned, validated, checked, validations, refinement, pipeline, request, context_chunks>>

\* One oracle invocation raises another error (node_handler.py:571-574)
OracleFails ==
    /\ pc \in {"generate", "improve"}
    /\ LET last == attempt + 1 >= max_retries
           raises == PermanentRaised(attempt) \/ last
       IN /\ oracle_seen' = Seen(PermanentError, raises)
          /\ IF PermanentRaised(attempt)
             THEN RequestRaises("oracle error") /\ attempt' = 0
             ELSE IF last
                  THEN RequestRaises("Max retries exceeded for Claude API") /\ attempt' = 0
                  ELSE NextAttempt
    /\ UNCHANGED <<generation, generation_history, cycle, returned, validated, checked, validations, refinement, pipeline, request, context_chunks>>

\* The test of the while loop of _refine_until_quality_met (base_handler.py:
\* 288-295)
RefineStep ==
    /\ pc = "refine"
    /\ IF ScoreBelow(current_result.quality_score, generation.quality_target) /\ BudgetLeft(cycle)
       THEN cycle' = cycle + 1 /\ pc' = "improve"
       ELSE UNCHANGED cycle /\ pc' = "finalize"
    /\ oracle_seen' = [oracle_seen EXCEPT !.last = NoOutcome]
    /\ UNCHANGED <<generation, attempt, current_result, returned, raised, best_assessed,
                   generation_history>>
    /\ UNCHANGED <<regVars, busVars, validated, checked, validations, refinement, pipeline, request, context_chunks>>

\* (mutation of HistoryRecorded: the generation is not stored)
HistoryNotRecorded(history, result) == history
\* _finalize_generation, lines 321-327: self.generation_history.append({...});
\* the timestamp is left out and patterns_used is [] (lines 338-341)
HistoryRecorded(history, result) ==
    Append(history, [features |-> result.features_implemented,
                     quality_score |-> result.quality_score,
                     patterns_used |-> <<>>, contracts |-> result.contracts])

\* _finalize_generation and the return of generate_code (base_handler.py:
\* 96-102, 317-336)
Finalize ==
    /\ pc = "finalize"
    /\ publish(generation.handler_type \o "_generation_completed", generation.handler_type,
               generation.correlation_id)
    /\ generation_history' = HistoryRecorded(generation_history, current_result)
    /\ returned' = current_result
    /\ pc' = "done"
    /\ UNCHANGED <<generation, attempt, cycle, current_result, raised, oracle_seen, best_assessed>>
    /\ UNCHANGED <<regVars, validated, checked, validations, refinement, pipeline, request, context_chunks>>

\* The except clause of generate_code (base_handler.py:104-122)
GenerationFails ==
    /\ pc = "failing"
    /\ publish("handler_generation_failed", generation.handler_type, generation.correlation_id)
    /\ returned' = HandlerResult(FALSE, generation.handler_type, <<>>, <<>>,
                                 Contracts(<<>>, <<>>), ZeroScore, raised, 0)
    /\ pc' = "done"
    /\ UNCHANGED <<generation, attempt, cycle, current_result, raised, oracle_seen, best_assessed,
                   generation_history>>
    /\ UNCHANGED <<regVars, validated, checked, validations, refinement, pipeline, request, context_chunks>>

NextHandler ==
    HandlerStart \/ OracleResponds \/ OracleOverloaded \/ OracleFails
    \/ RefineStep \/ Finalize \/ GenerationFails

-----------------------------------------------------------------------------
(* ============ Component Quality Validators on whole file maps ======== *)

\* (mutation of FreshIssues: the issue list is kept between calls)
IssuesKept == IF validations = <<>> THEN <<>> ELSE validations[Len(validations)].report.issues
\* node_handler.py:277, react_handler.py:239: issues = [], a local of the call
FreshIssues == <<>>

\* lines 279-283: file_scores[file_path] = file_score; issues.extend(...)
RECURSIVE FileScores(_, _)
FileScores(handler_type, code_files) ==
    IF code_files = <<>> THEN <<>>
    ELSE << <<Head(code_files)[1],
              _validate_single_file_quality(handler_type, Head(code_files)[1], Head(code_files)[2])>> >>
         \o FileScores(handler_type, Tail(code_files))
RECURSIVE ExtendedIssues(_, _)
ExtendedIssues(issues, file_scores) ==
    IF file_scores = <<>> THEN issues
    ELSE ExtendedIssues(issues \o Head(file_scores)[2].issues, Tail(file_scores))

\* The report _validate_code_quality returns (node_handler.py:272-297,
\* react_handler.py:234-259); metrics are derived from these three
QualityReportOf(handler_type, code_files) ==
    LET file_scores == FileScores(handler_type, code_files)
    IN [overall_score |-> _validate_code_quality(handler_type, code_files),
        file_scores |-> file_scores,
        issues |-> ExtendedIssues(FreshIssues, file_scores)]

\* A file that fails every check of its validator, next to one that passes
PoorContent == Content({}, MinFileLength - 1, 1, 0, <<>>, <<>>)
PoorFileMap(handler_type) ==
    IF handler_type = "node_backend"
    THEN << <<"src/controllers/authController.js", PoorContent>>,
            <<"src/routes/users.js", GoodContent>> >>
    ELSE << <<"src/components/LoginForm.tsx", PoorContent>>,
            <<"src/components/App.tsx", GoodContent>> >>

\* The file maps given to a validator
ValidatedFileMaps(handler_type) ==
    FileDicts \cup {BasicStructure(handler_type), PoorFileMap(handler_type)}

\* A validator is called on a file map; the call is remembered with the
\* state of the registry and of the bus it was made in
ValidateFileMap ==
    /\ Len(validations) < 2
    /\ \E handler_type \in HandlerTypes : \E code_files \in ValidatedFileMaps(handler_type) :
         validations' = Append(validations,
                               [handler_type |-> handler_type, code_files |-> code_files,
                                report |-> QualityReportOf(handler_type, code_files),
                                registered |-> reg_calls, published |-> Len(event_history)])
    /\ UNCHANGED <<regVars, busVars, validated, handlerVars, checked, refinement, pipeline, request, context_chunks>>

\* The backend handler registers the contracts of the file map it validated
\* last (node_handler.py:81-84)
RegisterValidated ==
    /\ validations # <<>>
    /\ reg_calls < MaxRegCalls
    /\ LET last == validations[Len(validations)]
       IN /\ last.handler_type = "node_backend"
          /\ _register_api_contracts(GenerationFeatures,
                                     _extract_contracts(last.handler_type, last.code_files), TRUE)
    /\ UNCHANGED <<busVars, validated, handlerVars, checked, validations, refinement, pipeline, request, context_chunks>>

NextValidatorCalls == ValidateFileMap \/ RegisterValidated \/ Publish

-----------------------------------------------------------------------------
(* ============ QualityCoordinator: API consistency check =============== *)

\* Bound of the coordinator model
MaxApis == 2           \* most endpoints, and most calls, one result declares

\* handler_results.get(...) of a handler that gave no result
None == [present |-> FALSE, api_endpoints |-> <<>>, api_calls |-> <<>>]
\* what the check reads of a handler result: its contracts
ResultWith(endpoints, calls) == [present |-> TRUE, api_endpoints |-> endpoints, api_calls |-> calls]
DeclaredEndpoints ==
    {[method |-> "GET", path |-> "/api/users"], [method |-> "POST", path |-> "/api/users"],
     [method |-> "GET", path |-> "/api/other"]}
DeclaredCalls ==
    {[endpoint |-> "/api/other"], [endpoint |-> "/api/users"], [endpoint |-> "GET /api/users"]}
BackendResults == {ResultWith(eps, <<>>) : eps \in SeqsUpTo(DeclaredEndpoints, MaxApis)} \cup {None}
FrontendResults == {ResultWith(<<>>, cs) : cs \in SeqsUpTo(DeclaredCalls, MaxApis)} \cup {None}

\* CrossStackIssue; the description is its text and the set whose list it
\* prints (list(set) has no fixed order)
CrossStackIssue(severity, text, listed) ==
    [issue_type |-> "contract_mismatch", severity |-> severity,
     description |-> [text |-> text, listed |-> listed],
     affected_handlers |-> <<"frontend", "backend">>]

\* line 246: set(f"{api['method']} {api['path']}" for api in backend_apis)
backend_endpoints(backend_apis) ==
    {backend_apis[i].method \o " " \o backend_apis[i].path : i \in 1..Len(backend_apis)}
\* line 247: set(api.get("endpoint", "") for api in frontend_apis)
frontend_calls(frontend_apis) == {frontend_apis[i].endpoint : i \in 1..Len(frontend_apis)}
\* (mutation of missing_backend: the difference taken the other way)
missing_backend_swapped(calls, endpoints) == endpoints \ calls
\* line 250: frontend_calls - backend_endpoints
missing_backend(calls, endpoints) == calls \ endpoints
\* line 251: backend_endpoints - frontend_calls
unused_backend(calls, endpoints) == endpoints \ calls

\* _validate_api_consistency (lines 230-273), scores in half points
_validate_api_consistency(backend_result, frontend_result) ==
    IF ~backend_result.present \/ ~frontend_result.present
    THEN [score |-> 20, issues |-> <<>>]
    ELSE LET endpoints == backend_endpoints(backend_result.api_endpoints)
             calls == frontend_calls(frontend_result.api_calls)
             missing == missing_backend(calls, endpoints)
             unused == unused_backend(calls, endpoints)
             missing_issue ==
                 IF missing # {}
                 THEN <<CrossStackIssue("critical",
                                        "Frontend calls missing backend endpoints: ", missing)>>
                 ELSE <<>>
             unused_issue ==
                 IF unused # {}
                 THEN <<CrossStackIssue("warning",
                                        "Backend endpoints not used by frontend: ", unused)>>
                 ELSE <<>>
         IN [score |-> Max(0, 20 - (IF missing # {} THEN 6 ELSE 0) - (IF unused # {} THEN 2 ELSE 0)),
             issues |-> missing_issue \o unused_issue]

\* _assess_cross_stack_quality, lines 198-204: the issues of a rule go to the
\* report by severity, as f"{rule_name}: {issue.description}"
RECURSIVE WithSeverity(_, _, _)
WithSeverity(rule_name, issues, wanted) ==
    IF issues = <<>> THEN <<>>
    ELSE (IF wanted[Head(issues).severity]
          THEN << [rule |-> rule_name, description |-> Head(issues).description] >>
          ELSE <<>>) \o WithSeverity(rule_name, Tail(issues), wanted)
Categorized(rule_name, issues) ==
    [critical_issues |-> WithSeverity(rule_name, issues,
                                      [s \in {"critical", "warning", "recommendation"} |-> s = "critical"]),
     warnings |-> WithSeverity(rule_name, issues,
                               [s \in {"critical", "warning", "recommendation"} |-> s = "warning"]),
     recommendations |-> WithSeverity(rule_name, issues,
                               [s \in {"critical", "warning", "recommendation"} |-> s = "recommendation"])]

\* The coordinator checks the API consistency of the two results, on its
\* own; the whole assessment, with the other validators, follows below
CheckApiConsistency ==
    /\ ~checked.done
    /\ \E backend_result \in BackendResults : \E frontend_result \in FrontendResults :
         LET result == _validate_api_consistency(backend_result, frontend_result)
         IN checked' = [done |-> TRUE, backend |-> backend_result, frontend |-> frontend_result,
                        result |-> result,
                        report |-> Categorized("contract_consistency", result.issues)]
    /\ UNCHANGED exceptCoordinator

-----------------------------------------------------------------------------
(* ===== QualityCoordinator: assessment and coordinated refinement ====== *)

\* The coordinator's sums are kept in units of 1/1200 of a half point, so
\* that the rule means (divisions by 3 and by 4), the rule weights
\* (hundredths), the mean over the handlers and the 0.6/0.4 mix are integers.
ScoreUnits == 1200
\* p points (0 to 10) in these units
Points(p) == p * 2 * ScoreUnits

\* quality_coordinator.py:39 (the coordinator's own max_refinement_cycles)
coordinator_max_refinement_cycles == 5

\* self.validation_rules (lines 42-84), weights in hundredths
validation_rules ==
    << [name |-> "contract_consistency", weight |-> 30,
        validators |-> <<"_validate_api_consistency", "_validate_data_model_consistency",
                         "_validate_authentication_consistency">>],
       [name |-> "security_compliance", weight |-> 25,
        validators |-> <<"_validate_input_sanitization", "_validate_authentication_security",
                         "_validate_authorization_patterns", "_validate_data_encryption">>],
       [name |-> "performance_standards", weight |-> 20,
        validators |-> <<"_validate_database_efficiency", "_validate_api_response_patterns",
                         "_validate_caching_strategies">>],
       [name |-> "code_quality", weight |-> 15,
        validators |-> <<"_validate_error_handling", "_validate_logging_patterns",
                         "_validate_code_structure">>],
       [name |-> "maintainability", weight |-> 10,
        validators |-> <<"_validate_documentation", "_validate_naming_conventions",
                         "_validate_testing_readiness">>] >>

\* A value of code_files: a string, or something that is not a string
Text(s) == [is_str |-> TRUE, text |-> s]
NotText == [is_str |-> FALSE, text |-> ""]

\* A HandlerResult as the coordinator reads it: quality_score, the contracts
\* and the values of code_files (quality_score is in half points)
AssessedResult(quality_score, endpoints, calls, contents) ==
    [present |-> TRUE, api_endpoints |-> endpoints, api_calls |-> calls,
     quality_score |-> quality_score, code_files |-> contents]
\* a key the mapping does not have
Absent == [present |-> FALSE, api_endpoints |-> <<>>, api_calls |-> <<>>,
           quality_score |-> 0, code_files |-> <<>>]

\* The results given to the coordinator.  main.py:1005-1043 fills the
\* mapping with the backend result, then the frontend result.
GivenBackendResults ==
    {Absent,
     AssessedResult(20, <<[method |-> "GET", path |-> "/api/users"]>>, <<>>,
                    <<Text("jwt.verify(t); bcrypt.hash(p); rateLimit(); helmet()")>>),
     AssessedResult(14, <<>>, <<>>, <<Text("app.listen(3000)")>>),
     AssessedResult(14, <<[method |-> "GET", path |-> "/api/users"]>>, <<>>,
                    <<Text("app.use(cors())"), NotText>>),
     AssessedResult(17, <<>>, <<>>, <<NotText>>)}
GivenFrontendResults ==
    {Absent,
     AssessedResult(20, <<>>, <<[endpoint |-> "GET /api/users"]>>, <<Text("Login: validate(form)")>>),
     AssessedResult(17, <<>>, <<[endpoint |-> "/api/users"]>>, <<Text("<div/>")>>),
     AssessedResult(0, <<>>, <<>>, <<>>)}
HandlerResults(backend, frontend) == [backend |-> backend, frontend |-> frontend]
\* handler_results.items(), in insertion order
Items(handler_results) ==
    (IF handler_results.backend.present
     THEN << [name |-> "backend", result |-> handler_results.backend] >> ELSE <<>>)
    \o (IF handler_results.frontend.present
        THEN << [name |-> "frontend", result |-> handler_results.frontend] >> ELSE <<>>)
\* target_quality, in half points: 8.0 (main.py:1043) and 35.0
TargetQualities == {16, 70}

\* What awaiting one validator gives: a score with issues, or an exception
ValidatorResult(score, issues) == [raised |-> FALSE, score |-> score, issues |-> issues]
ValidatorRaises == [raised |-> TRUE, score |-> 0, issues |-> <<>>]
Issue(issue_type, severity, text, listed, affected) ==
    [issue_type |-> issue_type, severity |-> severity,
     description |-> [text |-> text, listed |-> listed], affected_handlers |-> affected]

\* content.lower() and re.search(pattern, content) raise on a value that
\* is not a string
SomeNotText(contents) == \E i \in 1..Len(contents) : ~contents[i].is_str
\* term in content.lower(), for some file
SomeHas(contents, terms) ==
    \E i \in 1..Len(contents) : \E term \in terms : Contains(Lower(contents[i].text), term)
\* re.search of "a.*b"
ContainsThen(s, a, b) ==
    \E i \in 1..(Len(s) + 1 - Len(a)) :
        SubSeq(s, i, i + Len(a) - 1) = a /\ Contains(SubSeq(s, i + Len(a), Len(s)), b)

\* _validate_data_model_consistency (lines 275-314): the mapping has no
\* "database" result, so the validator returns at line 284
_validate_data_model_consistency(handler_results) == ValidatorResult(20, <<>>)

\* _validate_authentication_consistency (lines 316-355)
_validate_authentication_consistency(handler_results) ==
    LET items == Items(handler_results)
        has_auth(i) == SomeHas(items[i].result.code_files, {"jwt", "token", "auth", "login"})
        auth_handlers == {i \in 1..Len(items) : has_auth(i)}
        missing_auth == {items[i].name : i \in (1..Len(items)) \ auth_handlers}
    IN IF \E i \in 1..Len(items) : SomeNotText(items[i].result.code_files)
       THEN ValidatorRaises
       ELSE IF Cardinality(auth_handlers) > 0 /\ Cardinality(auth_handlers) < Len(items)
       THEN ValidatorResult(Max(0, 20 - 4),
                <<Issue("security_gap", "critical",
                        "Inconsistent authentication implementation. Missing in: ",
                        missing_auth, missing_auth)>>)
       ELSE ValidatorResult(20, <<>>)

\* the three security_patterns of _validate_input_sanitization (lines
\* 363-367), searched with re.IGNORECASE
MatchesSecurityPattern(text) ==
    LET s == Lower(text)
    IN \/ \E w \in {"sanitize", "escape", "validate", "joi.", "validator."} : Contains(s, w)
       \/ Contains(s, "xss") \/ ContainsThen(s, "sql", "injection") \/ Contains(s, "csrf")
       \/ Contains(s, "helmet") \/ Contains(s, "cors") \/ ContainsThen(s, "rate", "limit")
\* lines 373-376: the files are searched in order up to the first match
RECURSIVE SearchFiles(_)
SearchFiles(contents) ==
    IF contents = <<>> THEN "none"
    ELSE IF ~Head(contents).is_str THEN "raises"
    ELSE IF MatchesSecurityPattern(Head(contents).text) THEN "found"
    ELSE SearchFiles(Tail(contents))
\* _validate_input_sanitization (lines 358-388)
_validate_input_sanitization(handler_results) ==
    LET items == Items(handler_results)
        found(i) == SearchFiles(items[i].result.code_files)
        without == {i \in 1..Len(items) : found(i) = "none"}
        issue(i) == IF i \in without
                    THEN <<Issue("security_gap", "critical", "No input sanitization patterns found in ",
                                 {items[i].name}, {items[i].name})>>
                    ELSE <<>>
    IN IF \E i \in 1..Len(items) : found(i) = "raises"
       THEN ValidatorRaises
       ELSE ValidatorResult(Max(0, 20 - 6 * Cardinality(without)),
                            (IF Len(items) >= 1 THEN issue(1) ELSE <<>>)
                            \o (IF Len(items) >= 2 THEN issue(2) ELSE <<>>))

\* _validate_authentication_security (lines 390-439)
_validate_authentication_security(handler_results) ==
    LET contents == handler_results.backend.code_files
        has_bcrypt == SomeHas(contents, {"bcrypt"})
        has_jwt == SomeHas(contents, {"jwt", "jsonwebtoken"})
        has_rate_limit == \E i \in 1..Len(contents) :
                              /\ Contains(Lower(contents[i].text), "rate")
                              /\ Contains(Lower(contents[i].text), "limit")
    IN IF ~handler_results.backend.present THEN ValidatorResult(20, <<>>)
       ELSE IF SomeNotText(contents) THEN ValidatorRaises
       ELSE ValidatorResult(
                Max(0, 20 - (IF has_bcrypt THEN 0 ELSE 4) - (IF has_jwt THEN 0 ELSE 4)
                          - (IF has_rate_limit THEN 0 ELSE 2)),
                (IF has_bcrypt THEN <<>>
                 ELSE <<Issue("security_gap", "critical",
                              "No password hashing (bcrypt) found in backend", {}, {"backend"})>>)
                \o (IF has_jwt THEN <<>>
                    ELSE <<Issue("security_gap", "critical",
                                 "No JWT implementation found in backend", {}, {"backend"})>>)
                \o (IF has_rate_limit THEN <<>>
                    ELSE <<Issue("security_gap", "warning",
                                 "No rate limiting found in backend", {}, {"backend"})>>))

\* score = 10.0, the first statement of each validator that computes its
\* score (lines 232, 277, 318, 360, 392)
DefaultScore == 20
\* the placeholder validators (lines 441-473) return 8.0 and no issue
PlaceholderResult == ValidatorResult(16, <<>>)

\* await validator(handler_results) (line 179)
Validate(validator, handler_results) ==
    CASE validator = "_validate_api_consistency" ->
             LET r == _validate_api_consistency(handler_results.backend, handler_results.frontend)
             IN ValidatorResult(r.score, r.issues)
      [] validator = "_validate_data_model_consistency" ->
             _validate_data_model_consistency(handler_results)
      [] validator = "_validate_authentication_consistency" ->
             _validate_authentication_consistency(handler_results)
      [] validator = "_validate_input_sanitization" ->
             _validate_input_sanitization(handler_results)
      [] validator = "_validate_authentication_security" ->
             _validate_authentication_security(handler_results)
      [] OTHER -> PlaceholderResult

\* QualityReport (lines 11-21); the metrics and the timestamp are left out
QualityReport(overall_score, handler_scores, cross_stack_score) ==
    [overall_score |-> overall_score, handler_scores |-> handler_scores,
     cross_stack_score |-> cross_stack_score, critical_issues |-> <<>>, warnings |-> <<>>,
     recommendations |-> <<>>, refinement_cycles |-> 0]
NoReport == QualityReport(0, <<>>, 0)

\* lines 160-164: the scores of the results that have a quality_score
handler_scores(handler_results) ==
    LET items == Items(handler_results)
    IN [i \in 1..Len(items) |-> [name |-> items[i].name, score |-> items[i].result.quality_score]]
RECURSIVE total_handler_score(_)
total_handler_score(scores) ==
    IF scores = <<>> THEN 0 ELSE Head(scores).score + total_handler_score(Tail(scores))
\* line 166: total_handler_score / len(handler_results) if handler_results else 0
average_handler_score(handler_results) ==
    LET items == Items(handler_results)
    IN IF items = <<>> THEN 0
       ELSE (total_handler_score(handler_scores(handler_results)) * ScoreUnits) \div Len(items)

\* lines 177-190 for the validators of one rule: the score of a validator
\* that returns is added to rule_score, the exception of one that raises
\* becomes an issue of severity "warning"
RECURSIVE rule_score(_)
rule_score(results) ==
    IF results = <<>> THEN 0
    ELSE (IF Head(results).raised THEN 0 ELSE Head(results).score) + rule_score(Tail(results))
ValidationError(validator, affected) ==
    Issue("validation_error", "warning", "Validator " \o validator \o " failed: ", {}, affected)
rule_issues(validators, results, affected) ==
    LET RECURSIVE Collect(_)
        Collect(i) ==
            IF i > Len(validators) THEN <<>>
            ELSE (IF results[i].raised THEN <<ValidationError(validators[i], affected)>>
                  ELSE results[i].issues) \o Collect(i + 1)
    IN Collect(1)
\* line 193: rule_score / len(rule_config["validators"])
avg_rule_score(score, validators) == (score * ScoreUnits) \div Len(validators)
\* line 194: avg_rule_score * rule_config["weight"]
weighted_score(avg, weight) == (avg * weight) \div 100
\* line 209: total_cross_stack_score * 10
cross_stack_score(total) == total * 10
\* (mutation of overall_score: the two weights exchanged)
overall_score_swapped(average, cross) == (average * 4 + cross * 6) \div 10
\* line 210: average_handler_score * 0.6 + report.cross_stack_score * 0.4
overall_score(average, cross) == (average * 6 + cross * 4) \div 10

\* _prioritize_issues (lines 475-479)
_prioritize_issues(quality_report) ==
    SubSeq(quality_report.critical_issues, 1,
           IF Len(quality_report.critical_issues) < 3 THEN Len(quality_report.critical_issues) ELSE 3)
\* _apply_coordinated_improvements (lines 481-491)
_apply_coordinated_improvements(handler_results, priority_issues, cycle_number) == handler_results

\* lines 136-138
HumanReviewNote(score) ==
    [rule |-> "", description |-> [text |-> "Consider human review - automated refinement reached ",
                                   listed |-> {score}]]
\* overall_score >= target_quality
MeetsTarget(report, target_quality) == report.overall_score >= target_quality * ScoreUnits
\* (mutation of CyclesLeft: one cycle more)
CyclesLeftInclusive(c) == c <= coordinator_max_refinement_cycles
\* line 103: for cycle in range(1, self.max_refinement_cycles + 1)
CyclesLeft(c) == c < coordinator_max_refinement_cycles

\* no validate_and_refine call yet
NoRefinement ==
    [pc |-> "idle", handler_results |-> HandlerResults(Absent, Absent), target_quality |-> 0,
     cycle |-> 0, rule |-> 1, average |-> 0, total_cross_stack_score |-> 0, rules |-> <<>>,
     report |-> NoReport, current_report |-> NoReport, assessments |-> 0, returned |-> FALSE]

\* (mutation of NewReport: the lists of the report before are kept)
ReportKept(report, handler_results) ==
    [report EXCEPT !.handler_scores = handler_scores(handler_results)]
\* lines 148-164: report = QualityReport(overall_score=0.0, ..., critical_issues=[],
\* warnings=[], recommendations=[], ...), then the handler scores
NewReport(report, handler_results) == QualityReport(0, handler_scores(handler_results), 0)

\* _assess_cross_stack_quality up to the loop over the rules (lines 145-170)
BeginAssessment(call, handler_results) ==
    [call EXCEPT !.pc = "assessing", !.handler_results = handler_results, !.rule = 1,
                 !.average = average_handler_score(handler_results),
                 !.total_cross_stack_score = 0, !.rules = <<>>,
                 !.report = NewReport(call.report, handler_results)]

\* validate_and_refine is called (lines 86-93)
ValidateAndRefine ==
    /\ refinement.pc = "idle"
    /\ \E backend \in GivenBackendResults : \E frontend \in GivenFrontendResults :
       \E target_quality \in TargetQualities :
         refinement' = BeginAssessment([refinement EXCEPT !.target_quality = target_quality],
                                       HandlerResults(backend, frontend))
    /\ UNCHANGED busVars
    /\ UNCHANGED exceptRefinement

\* One pass of the loop over the rules (lines 172-206): its validators are
\* awaited in turn, the rule's mean is weighted and added, and the issues go
\* to the report by severity
RunRule ==
    /\ refinement.pc = "assessing"
    /\ refinement.rule <= Len(validation_rules)
    /\ LET rule_config == validation_rules[refinement.rule]
           validators == rule_config.validators
           items == Items(refinement.handler_results)
           affected == {items[i].name : i \in 1..Len(items)}
           results == [i \in 1..Len(validators) |-> Validate(validators[i], refinement.handler_results)]
           score == rule_score(results)
           avg == avg_rule_score(score, validators)
           by_severity == Categorized(rule_config.name, rule_issues(validators, results, affected))
       IN refinement' =
            [refinement EXCEPT
               !.rule = @ + 1,
               !.total_cross_stack_score = @ + weighted_score(avg, rule_config.weight),
               !.rules = Append(@, [name |-> rule_config.name, validators |-> validators,
                                    results |-> results, rule_score |-> score,
                                    avg_rule_score |-> avg]),
               !.report.critical_issues = @ \o by_severity.critical_issues,
               !.report.warnings = @ \o by_severity.warnings,
               !.report.recommendations = @ \o by_severity.recommendations]
    /\ UNCHANGED busVars
    /\ UNCHANGED exceptRefinement

\* The final scores of the assessment (lines 208-227)
FinishAssessment ==
    /\ refinement.pc = "assessing"
    /\ refinement.rule > Len(validation_rules)
    /\ LET cross == cross_stack_score(refinement.total_cross_stack_score)
       IN refinement' = [refinement EXCEPT
                            !.pc = "assessed",
                            !.report.cross_stack_score = cross,
                            !.report.overall_score = overall_score(refinement.average, cross),
                            !.assessments = @ + 1]
    /\ UNCHANGED busVars
    /\ UNCHANGED exceptRefinement

\* lines 95-97: the initial report meets the target
ReturnInitial ==
    /\ refinement.pc = "assessed"
    /\ refinement.cycle = 0
    /\ MeetsTarget(refinement.report, refinement.target_quality)
    /\ refinement' = [refinement EXCEPT !.pc = "done", !.current_report = refinement.report,
                                        !.returned = TRUE]
    /\ UNCHANGED busVars
    /\ UNCHANGED exceptRefinement

\* The start of one cycle (lines 103-115): the issues are prioritized, the
\* improvements applied and the results assessed again
BeginCycle(call, cycle_number) ==
    BeginAssessment([call EXCEPT !.cycle = cycle_number],
                    _apply_coordinated_improvements(call.handler_results,
                                                    _prioritize_issues(call.current_report),
                                                    cycle_number))

\* lines 99-103: the initial report is below the target, the first cycle starts
StartRefinement ==
    /\ refinement.pc = "assessed"
    /\ refinement.cycle = 0
    /\ ~MeetsTarget(refinement.report, refinement.target_quality)
    /\ refinement' = BeginCycle([refinement EXCEPT !.current_report = refinement.report], 1)
    /\ UNCHANGED busVars
    /\ UNCHANGED exceptRefinement

\* The rest of one cycle (lines 115-131): the new report takes the cycle
\* number, the progress event is published, and the loop ends or goes on
CycleAssessed ==
    /\ refinement.pc = "assessed"
    /\ refinement.cycle >= 1
    /\ LET current_report == [refinement.report EXCEPT !.refinement_cycles = refinement.cycle]
           call == [refinement EXCEPT !.current_report = current_report]
       IN /\ publish("quality_refinement_cycle", "quality_coordinator", NoCorrelation)
          /\ refinement' =
               IF MeetsTarget(current_report, refinement.target_quality)
                  \/ ~CyclesLeft(refinement.cycle)
               THEN [call EXCEPT !.pc = "finishing"]
               ELSE BeginCycle(call, refinement.cycle + 1)
    /\ UNCHANGED exceptRefinement

\* lines 133-140: the note for a report below the target, and the return
ReturnFinal ==
    /\ refinement.pc = "finishing"
    /\ refinement' =
         [refinement EXCEPT
            !.pc = "done", !.returned = TRUE,
            !.current_report.recommendations =
                IF MeetsTarget(refinement.current_report, refinement.target_quality) THEN @
                ELSE Append(@, HumanReviewNote(refinement.current_report.overall_score))]
    /\ UNCHANGED busVars
    /\ UNCHANGED exceptRefinement

NextRefinement ==
    \/ ValidateAndRefine \/ RunRule \/ FinishAssessment \/ ReturnInitial
    \/ StartRefinement \/ CycleAssessed \/ ReturnFinal

\* The state after construction: an empty registry (contract_registry.py:
\* 53-71) and an empty event bus (event_bus.py:30-34); no file validated and
\* no generate_code call and no consistency check yet.
-----------------------------------------------------------------------------
(* ====================== Context chunks (base_handler) ================== *)

max_tokens_per_request == 150000
\* len("\n... [TRUNCATED FOR TOKEN LIMIT]")
TruncationMarkLength == 32

\* ContextChunk (base_handler.py:33-40); the content is modelled by its
\* length in characters and by whether it was cut
ContextChunk(id, priority, length) ==
    [chunk_id |-> id, priority |-> priority, length |-> length,
     tokens_estimate |-> length \div 4, truncated |-> FALSE]

\* The lengths of the context texts: short, and 40%, 80% and 120% of the
\* token limit
ContentLengths == {400, 240000, 480000, 720000}

\* The chunks _prepare_context_chunks builds (lines 128-173): architecture,
\* contracts, the history when there is one, and the features
PreparedChunks ==
    {<<ContextChunk("architecture", 1, a), ContextChunk("contracts", 1, c),
       ContextChunk("features", 1, f)>> :
         a \in ContentLengths, c \in ContentLengths, f \in ContentLengths}
    \cup
    {<<ContextChunk("architecture", 1, a), ContextChunk("contracts", 1, c),
       ContextChunk("history", 2, h), ContextChunk("features", 1, f)>> :
         a \in ContentLengths, c \in ContentLengths, h \in ContentLengths,
         f \in ContentLengths}

\* line 181: chunks.sort(key=lambda x: x.priority), a stable sort
SortByPriority(chunks) ==
    SelectSeq(chunks, LAMBDA c : c.priority = 1)
    \o SelectSeq(chunks, LAMBDA c : c.priority = 2)
    \o SelectSeq(chunks, LAMBDA c : c.priority >= 3)

RECURSIVE TotalTokens(_)
TotalTokens(chunks) ==
    IF chunks = <<>> THEN 0 ELSE Head(chunks).tokens_estimate + TotalTokens(Tail(chunks))

\* lines 197-199: the content is cut to the room that is left and the mark
\* is appended
Truncated(chunk, current_tokens) ==
    LET room == (max_tokens_per_request - current_tokens) * 4
        length == (IF chunk.length < room THEN chunk.length ELSE room) + TruncationMarkLength
    IN [chunk EXCEPT !.length = length, !.tokens_estimate = length \div 4, !.truncated = TRUE]

\* The loop of lines 192-201: a chunk that fits is taken; a critical chunk
\* that does not fit is truncated, taken, and ends the loop; any other
\* chunk is skipped
RECURSIVE FitChunks(_, _, _)
FitChunks(chunks, optimized_chunks, current_tokens) ==
    IF chunks = <<>> THEN optimized_chunks
    ELSE LET chunk == Head(chunks)
         IN IF current_tokens + chunk.tokens_estimate <= max_tokens_per_request
            THEN FitChunks(Tail(chunks), Append(optimized_chunks, chunk),
                           current_tokens + chunk.tokens_estimate)
            ELSE IF chunk.priority = 1
                 THEN Append(optimized_chunks, Truncated(chunk, current_tokens))
                 ELSE FitChunks(Tail(chunks), optimized_chunks, current_tokens)

\* _optimize_chunks_for_tokens (lines 177-204)
_optimize_chunks_for_tokens(chunks) ==
    LET sorted == SortByPriority(chunks)
    IN IF TotalTokens(sorted) <= max_tokens_per_request THEN sorted
       ELSE FitChunks(sorted, <<>>, 0)

\* _prepare_context_chunks (lines 124-175)
PrepareContextChunks ==
    /\ ~context_chunks.done
    /\ \E chunks \in PreparedChunks :
         context_chunks' = [done |-> TRUE, chunks |-> chunks,
                            optimized |-> _optimize_chunks_for_tokens(chunks)]
    /\ UNCHANGED <<regVars, busVars, validated, handlerVars, checked, validations, refinement,
                   pipeline, request>>

-----------------------------------------------------------------------------
(* ===================== _claude_request_with_retry ====================== *)

\* The three request wrappers: NodeHandler's (node_handler.py:550-576),
\* ReactHandler's (react_handler.py:445-471, the same code) and the one of
\* main.py (264-293).
Wrappers == {"node_backend", "react_frontend", "main"}

main_max_retries == 5
base_delay == 3

\* What str(e) of an oracle error can be
ErrorMessages == {"overloaded_error", "rate_limit_error", "invalid_request_error"}

\* the range of the for loop (node_handler.py:550, 553; main.py:267, 270)
MaxRetries(wrapper) == IF wrapper = "main" THEN main_max_retries ELSE max_retries

\* the sleep before each attempt (node_handler.py:555; main.py:273)
ProgressiveDelay(wrapper, a) == IF wrapper = "main" THEN base_delay + a * 2 ELSE 2 * a

\* the test of the except clause (node_handler.py:567; main.py:285)
IsOverload(wrapper, message) ==
    IF wrapper = "main"
    THEN Contains(message, "overloaded") \/ Contains(message, "529")
    ELSE Contains(message, "overloaded") \/ Contains(message, "rate_limit")

\* (mutation of wait_time: the same wait after every attempt)
wait_time_constant(wrapper, a) == IF wrapper = "main" THEN base_delay ELSE 5
\* wait_time (node_handler.py:568; main.py:286)
wait_time(wrapper, a) == IF wrapper = "main" THEN base_delay * (2 ^ a) ELSE 5 * (2 ^ a)

\* whether another error is raised by this attempt (node_handler.py:571-574:
\* only by the last one; main.py:289-291: by every one)
RaisedAt(wrapper, a) == IF wrapper = "main" THEN TRUE ELSE PermanentRaised(a)

NoRequest ==
    [wrapper |-> "none", pc |-> "idle", attempt |-> 0, invocations |-> <<>>, sleeps |-> <<>>,
     waits |-> <<>>, outcome |-> "none", error |-> ""]

\* the loop variable moves on, or the loop is over and line 576 raises
NextIteration(r) ==
    IF r.attempt + 1 < MaxRetries(r.wrapper)
    THEN [r EXCEPT !.attempt = r.attempt + 1, !.pc = "sleep"]
    ELSE [r EXCEPT !.pc = "done", !.outcome = "raised",
                   !.error = "Max retries exceeded for Claude API"]

\* _claude_request_with_retry is called
RequestStarts ==
    /\ request.pc = "idle"
    /\ \E w \in Wrappers : request' = [NoRequest EXCEPT !.wrapper = w, !.pc = "sleep"]
    /\ UNCHANGED <<regVars, busVars, validated, handlerVars, checked, validations, refinement, pipeline, context_chunks>>

\* the sleep at the head of the try block
RequestSleeps ==
    /\ request.pc = "sleep"
    /\ request' = [request EXCEPT
                      !.sleeps = Append(@, ProgressiveDelay(request.wrapper, request.attempt)),
                      !.pc = "invoke"]
    /\ UNCHANGED <<regVars, busVars, validated, handlerVars, checked, validations, refinement, pipeline, context_chunks>>

\* messages.create returns and the wrapper returns the message
RequestReturns ==
    /\ request.pc = "invoke"
    /\ request' = [request EXCEPT !.invocations = Append(@, "message"),
                                  !.pc = "done", !.outcome = "returned"]
    /\ UNCHANGED <<regVars, busVars, validated, handlerVars, checked, validations, refinement, pipeline, context_chunks>>

\* messages.create raises: an overload goes to its backoff, another error is
\* raised or only logged
InvocationRaises ==
    /\ request.pc = "invoke"
    /\ \E message \in ErrorMessages :
         LET r == [request EXCEPT !.invocations = Append(@, message)]
         IN request' =
              IF IsOverload(r.wrapper, message) THEN [r EXCEPT !.pc = "backoff"]
              ELSE IF RaisedAt(r.wrapper, r.attempt)
                   THEN [r EXCEPT !.pc = "done", !.outcome = "raised", !.error = message]
                   ELSE NextIteration(r)
    /\ UNCHANGED <<regVars, busVars, validated, handlerVars, checked, validations, refinement, pipeline, context_chunks>>

\* the sleep of the except clause, then the next pass of the loop
RequestBacksOff ==
    /\ request.pc = "backoff"
    /\ request' = NextIteration([request EXCEPT
                      !.waits = Append(@, wait_time(request.wrapper, request.attempt))])
    /\ UNCHANGED <<regVars, busVars, validated, handlerVars, checked, validations, refinement, pipeline, context_chunks>>

NextRetry ==
    RequestStarts \/ RequestSleeps \/ RequestReturns \/ InvocationRaises \/ RequestBacksOff

-----------------------------------------------------------------------------
(* ================== main.py: the generation pipelines ================== *)

\* The two endpoints that run the handlers: generate_ultra_premium_code
\* (main.py:931-1113) and the event stream of generate_code_stream
\* (main.py:790-916).
Endpoints == {"premium", "stream"}

\* What generate_code hands back when it fails (base_handler.py:103-122)
FailedResult == AssessedResult(0, <<>>, <<>>, <<>>)
NotCalled == [status |-> "none", success |-> FALSE, result |-> Absent]
Running == [status |-> "running", success |-> FALSE, result |-> Absent]
Returned(success, result) == [status |-> "returned", success |-> success, result |-> result]
\* The results a generate_code call can return to the pipeline
BackendOutcomes ==
    {Returned(TRUE, r) : r \in GivenBackendResults \ {Absent}} \cup {Returned(FALSE, FailedResult)}
FrontendOutcomes ==
    {Returned(TRUE, r) : r \in GivenFrontendResults \ {Absent, FailedResult}}
    \cup {Returned(FALSE, FailedResult)}

NoPipeline == [endpoint |-> "none", pc |-> "idle", backend |-> NotCalled, frontend |-> NotCalled]

\* (mutation of Awaited: the caller goes on without awaiting the call)
NotAwaited(call) == call.status # "none"
\* `await handler.generate_code(...)` (main.py:1009, 1033, 855, 873): the
\* caller resumes when the call has returned
Awaited(call) == call.status = "returned"

\* A request arrives and the endpoint calls node_handler.generate_code
\* (main.py:1005-1009; 852-855)
CallBackend ==
    /\ pipeline.pc = "idle"
    /\ \E e \in Endpoints :
         pipeline' = [pipeline EXCEPT !.endpoint = e, !.pc = "await_backend",
                                      !.backend = Running]
    /\ UNCHANGED <<regVars, busVars, validated, handlerVars, checked, validations, refinement, request, context_chunks>>

\* node_handler.generate_code returns its HandlerResult
BackendReturns ==
    /\ pipeline.backend.status = "running"
    /\ \E outcome \in BackendOutcomes : pipeline' = [pipeline EXCEPT !.backend = outcome]
    /\ UNCHANGED <<regVars, busVars, validated, handlerVars, checked, validations, refinement, request, context_chunks>>

\* The endpoint resumes with the backend result: on failure it raises
\* HTTPException(500) (main.py:1028-1030) or streams an error (908-909); on
\* success it calls react_handler.generate_code (1033; 873).
CallFrontend ==
    /\ pipeline.pc = "await_backend"
    /\ Awaited(pipeline.backend)
    /\ pipeline' = IF pipeline.backend.success
                   THEN [pipeline EXCEPT !.pc = "await_frontend", !.frontend = Running]
                   ELSE [pipeline EXCEPT !.pc = "failed"]
    /\ UNCHANGED <<regVars, busVars, validated, handlerVars, checked, validations, refinement, request, context_chunks>>

\* react_handler.generate_code returns its HandlerResult
FrontendReturns ==
    /\ pipeline.frontend.status = "running"
    /\ \E outcome \in FrontendOutcomes : pipeline' = [pipeline EXCEPT !.frontend = outcome]
    /\ UNCHANGED <<regVars, busVars, validated, handlerVars, checked, validations, refinement, request, context_chunks>>

\* The endpoint resumes with the frontend result.  generate_ultra_premium_code
\* calls quality_coordinator.validate_and_refine(handler_results, 8.0) with
\* both results (main.py:1034-1043); the event stream goes on to write the
\* files (main.py:887-906).
CallValidateAndRefine ==
    /\ pipeline.pc = "await_frontend"
    /\ Awaited(pipeline.frontend)
    /\ IF pipeline.endpoint = "premium"
       THEN /\ pipeline' = [pipeline EXCEPT !.pc = "await_report"]
            /\ refinement' =
                 BeginAssessment([refinement EXCEPT !.target_quality = 16],
                                 HandlerResults(pipeline.backend.result, pipeline.frontend.result))
       ELSE /\ pipeline' = [pipeline EXCEPT !.pc = "done"]
            /\ UNCHANGED refinement
    /\ UNCHANGED <<regVars, busVars, validated, handlerVars, checked, validations, request, context_chunks>>

\* validate_and_refine has returned its report; the files are written and
\* the response is built (main.py:1045-1110)
WriteFiles ==
    /\ pipeline.pc = "await_report"
    /\ refinement.returned
    /\ pipeline' = [pipeline EXCEPT !.pc = "done"]
    /\ UNCHANGED <<regVars, busVars, validated, handlerVars, checked, validations, refinement, request, context_chunks>>

\* The steps of the endpoints and of the validate_and_refine call they make.
\* With the target 8.0 of line 1043 the first report meets the target for
\* every pair of results, so the call returns from line 97.
NextPipeline ==
    \/ CallBackend \/ BackendReturns \/ CallFrontend \/ FrontendReturns
    \/ CallValidateAndRefine \/ WriteFiles
    \/ RunRule \/ FinishAssessment \/ ReturnInitial

Init ==
    /\ feature_contracts = <<>>
    /\ endpoint_registry = <<>>
    /\ model_registry = <<>>
    /\ dependency_graph = <<>>
    /\ disk = {}
    /\ reg_calls = 0
    /\ reg_raised = FALSE
    /\ subscribers = <<>>
    /\ event_history = <<>>
    /\ active_correlations = <<>>
    /\ next_uuid = 0
    /\ pubs = <<>>
    /\ ready = <<>>
    /\ waiters = [w \in WaiterIds |-> [state |-> "none", event_type |-> "", deadline |-> 0,
                                      timer |-> "none", result |-> <<>>, hit |-> FALSE,
                                      early |-> FALSE, since |-> 0]]
    /\ clock = 0
    /\ validated = [handler |-> "none"]
    /\ generation = [handler_type |-> "none", quality_target |-> 0,
                     correlation_id |-> NoCorrelation, features |-> <<>>]
    /\ pc = "idle"
    /\ attempt = 0
    /\ cycle = 0
    /\ current_result = NoResult
    /\ returned = NoResult
    /\ raised = ""
    /\ oracle_seen = [first |-> NoOutcome, constant |-> TRUE, request_failed |-> FALSE,
                      last |-> NoOutcome]
    /\ best_assessed = ZeroScore
    /\ generation_history = <<>>
    /\ checked = [done |-> FALSE]
    /\ validations = <<>>
    /\ refinement = NoRefinement
    /\ pipeline = NoPipeline
    /\ request = NoRequest
    /\ context_chunks = [done |-> FALSE]

-----------------------------------------------------------------------------
(* =========================== Specifications =========================== *)

SpecRegistry == Init /\ [][RegisterEndpoints]_vars
SpecRegistryDeps == Init /\ [][RegisterDependencies]_vars
SpecRegistryStorage == Init /\ [][RegisterOnStorage]_vars
SpecBus == Init /\ [][NextBus]_vars
SpecBusWait == Init /\ [][NextBusWait]_vars
SpecHistory == Init /\ [][PublishSeries]_vars
SpecBusConcurrent == Init /\ [][NextBusConcurrent]_vars
SpecValidator == Init /\ [][NextValidator]_vars
SpecHandler == Init /\ [][NextHandler]_vars
SpecCoordinator == Init /\ [][CheckApiConsistency]_vars
SpecValidatorCalls == Init /\ [][NextValidatorCalls]_vars
SpecRefinement == Init /\ [][NextRefinement]_vars
SpecPipeline == Init /\ [][NextPipeline]_vars
SpecRetry == Init /\ [][NextRetry]_vars
SpecChunks == Init /\ [][PrepareContextChunks]_vars
\* The event loop keeps running: ready tasks run, suspended publishers
\* resume, time passes and elapsed sleeps wake their task.
FairSpecBusWait ==
    SpecBusWait /\ WF_vars(RunCallback) /\ WF_vars(PublishReturn)
                /\ WF_vars(TimerDue) /\ WF_vars(SleepOver)
                /\ WF_vars(TimeoutFire) /\ WF_vars(Tick)

-----------------------------------------------------------------------------
(* ================== Properties of the contract registry =============== *)

\* the dependency edges declared by the contracts now registered
ContractEdges ==
    [f \in Features |-> IF f \in DOMAIN feature_contracts
                        THEN Range(feature_contracts[f].dependencies) ELSE {}]
\* the edges held by the registry's dependency graph
GraphEdges ==
    [f \in Features |-> IF f \in DOMAIN dependency_graph THEN dependency_graph[f] ELSE {}]
RECURSIVE Closure(_, _)
Closure(E, S) ==
    LET T == S \cup UNION {E[n] : n \in S} IN IF T = S THEN S ELSE Closure(E, T)
\* f lies on a cycle of E: f is reachable from itself along one or more edges
OnCycle(E, f) == f \in Closure(E, E[f])
Acyclic(E) == \A f \in Features : ~OnCycle(E, f)
Reported(f) == ("Circular dependency in " \o f) \in validate_cross_stack_consistency.dependency_conflicts

\* the endpoints of the registry's list that are stored under key k
ListedUnder(k) == {i \in 1..Len(get_all_endpoints) : EndpointKey(get_all_endpoints[i]) = k}
\* the registered features whose contract declares an endpoint with key k
Declaring(k) ==
    {f \in DOMAIN feature_contracts :
        \E i \in 1..Len(feature_contracts[f].endpoints) :
            EndpointKey(feature_contracts[f].endpoints[i]) = k}
AllKeys == {e[1] \o " " \o e[2] : e \in EndpointShapes}

\* C4 (as claimed): all_endpoints() holds every endpoint a registered feature
\* declares, and an endpoint declared by two features with the same method
\* and path is listed once per declaring feature.
C4_EveryDeclaredEndpointListed ==
    /\ \A f \in DOMAIN feature_contracts :
          Range(feature_contracts[f].endpoints) \subseteq Range(get_all_endpoints)
    /\ \A k \in AllKeys : Cardinality(ListedUnder(k)) >= Cardinality(Declaring(k))

\* C5: every registered feature that lies on a cycle of the declared
\* dependencies (a self-dependency, A <-> B, or a longer cycle) is reported
\* by validate_consistency() as a circular dependency, whatever the order
\* in which the contracts were registered.
C5_CycleMembersReported ==
    \A f \in Features : OnCycle(ContractEdges, f) => Reported(f)

\* C5 witness: A and B depend on each other, a third feature is on a cycle
\* of length three or on itself, and all of them are reported.
C5_Witness ==
    /\ "B" \in ContractEdges["A"] /\ "A" \in ContractEdges["B"]
    /\ OnCycle(ContractEdges, "C")
    /\ Reported("A") /\ Reported("B") /\ Reported("C")

\* C6: when the registry's dependency graph has no cycle, validate_consistency()
\* reports no circular dependency; a diamond is not flagged.
C6_AcyclicNotReported ==
    Acyclic(GraphEdges) => validate_cross_stack_consistency.dependency_conflicts = {}

\* C6 witness: the diamond A -> {B, C}, B -> D, C -> D, with nothing reported.
C6_Witness ==
    /\ GraphEdges["A"] = {"B", "C"}
    /\ GraphEdges["B"] = {"D"} /\ GraphEdges["C"] = {"D"} /\ GraphEdges["D"] = {}
    /\ validate_cross_stack_consistency.dependency_conflicts = {}

-----------------------------------------------------------------------------
(* ===================== Properties of the event bus ==================== *)

\* C9: once a publish call is over it has returned normally, not raised, and
\* every callback subscribed to the event's type was called with the event,
\* also when one of the callbacks raised.
C9_RaisingCallbackIsolated ==
    \A p \in 1..Len(pubs) :
        pubs[p].state # "gathering" =>
            /\ pubs[p].state = "returned"
            /\ \A i \in 1..Len(pubs[p].callbacks) : pubs[p].results[i] # "pending"

\* C9 witness: a publish to two callbacks, the first of which raised, has
\* returned, and the second callback was called and returned.
C9_Witness ==
    \E p \in 1..Len(pubs) :
        /\ pubs[p].state = "returned"
        /\ Len(pubs[p].callbacks) = 2
        /\ pubs[p].callbacks[1] = HandlerCallback("raises")
        /\ pubs[p].callbacks[2] = HandlerCallback("returns")
        /\ pubs[p].results = <<"logged", "returned">>

-----------------------------------------------------------------------------
(* ============== Properties of the component quality validators ======== *)

HasCriticalIssueFor(result, file_path) ==
    \E i \in 1..Len(result.issues) :
        StartsWith(result.issues[i], "CRITICAL") /\ EndsWith(result.issues[i], file_path)

\* C7 (as claimed): for every file, whatever its path, different numbers of
\* '{' and '}' give a CRITICAL issue for the file and a score of at most
\* 10 - 2.0.
C7_MismatchPenalisedEveryFile ==
    (validated.handler # "none" /\ validated.content.opens # validated.content.closes) =>
        /\ HasCriticalIssueFor(validated.result, validated.file_path)
        /\ validated.result.score <= 20 - 4

\* C7 (amended): the same, for every file except those the backend validator
\* skips, whose path ends in .sql or .env.example.
C7_MismatchPenalisedUnlessSkipped ==
    (/\ validated.handler # "none"
     /\ validated.content.opens # validated.content.closes
     /\ ~(validated.handler = "node_backend"
          /\ (EndsWith(validated.file_path, ".sql") \/ EndsWith(validated.file_path, ".env.example")))) =>
        /\ HasCriticalIssueFor(validated.result, validated.file_path)
        /\ validated.result.score <= 20 - 4

\* C7 witness: a backend file whose only defect is a '}' too many scores
\* exactly 10 - 2.0 with the bracket issue.
C7_Witness ==
    /\ validated.handler = "node_backend"
    /\ validated.file_path = "src/config/database.js"
    /\ validated.content.opens < validated.content.closes
    /\ validated.result.score = 20 - 4
    /\ validated.result.issues = <<"CRITICAL: Bracket mismatch in src/config/database.js">>

-----------------------------------------------------------------------------
(* ==================== Properties of generate_code ===================== *)

EventsOfType(t) == Cardinality({i \in 1..Len(event_history) : event_history[i].event_type = t})
FailureResult(r) ==
    ~r.success /\ r.code_files = <<>> /\ r.quality_score = ZeroScore /\ r.error_message # ""
\* the score of the files a response gives when it is the first response
ResponseScore(response) ==
    _validate_code_quality(generation.handler_type, _parse_response(generation.handler_type, response))
\* every oracle invocation so far returned the same response, whose files
\* score below the target, and the contract file was written
ConstantLowOracle ==
    /\ oracle_seen.first.kind = "response"
    /\ oracle_seen.constant
    /\ ScoreBelow(ResponseScore(oracle_seen.first.response), generation.quality_target)
    /\ ~reg_raised

C2_FirstCallRaisesThenFailure ==
    (pc = "done" /\ oracle_seen.first = PermanentError) =>
        /\ FailureResult(returned)
        /\ EventsOfType("handler_generation_failed") = 1

\* C3 (as claimed): when an oracle request fails at any point of
\* generate_code, the improvement requests included, the call returns a
\* failure result and a failure event was published.
C3_OracleFailureIsFatal ==
    (pc = "done" /\ oracle_seen.request_failed) =>
        /\ FailureResult(returned)
        /\ EventsOfType("handler_generation_failed") >= 1

-----------------------------------------------------------------------------
(* ================ Properties of the API consistency check ============= *)

\* the issues of one severity that list the text x, and their report lines
IssuesListing(severity, x) ==
    {i \in 1..Len(checked.result.issues) :
        /\ checked.result.issues[i].severity = severity
        /\ x \in checked.result.issues[i].description.listed}
ReportLinesListing(lines, x) == {i \in 1..Len(lines) : x \in lines[i].description.listed}
\* a call names an endpoint when its text is the endpoint's "METHOD path"
Names(call, ep) == call.endpoint = ep.method \o " " \o ep.path
BothPresent == checked.done /\ checked.backend.present /\ checked.frontend.present

\* C8: with a backend and a frontend result, every frontend call target that
\* no backend endpoint matches is listed by a CRITICAL issue, every backend
\* endpoint that no frontend call matches is listed by a WARNING issue, and
\* for backend GET /api/users with frontend /api/other the report has exactly
\* one such CRITICAL and exactly one such WARNING issue.
C8_MismatchesReported ==
    BothPresent =>
        LET eps == Range(checked.backend.api_endpoints)
            calls == Range(checked.frontend.api_calls)
        IN /\ \A call \in calls :
                (\A ep \in eps : ~Names(call, ep)) =>
                    /\ IssuesListing("critical", call.endpoint) # {}
                    /\ ReportLinesListing(checked.report.critical_issues, call.endpoint) # {}
           /\ \A ep \in eps :
                (\A call \in calls : ~Names(call, ep)) =>
                    /\ IssuesListing("warning", ep.method \o " " \o ep.path) # {}
                    /\ ReportLinesListing(checked.report.warnings, ep.method \o " " \o ep.path) # {}
           /\ (eps = {[method |-> "GET", path |-> "/api/users"]}
               /\ calls = {[endpoint |-> "/api/other"]}) =>
                    /\ Cardinality(IssuesListing("critical", "/api/other")) = 1
                    /\ Cardinality(IssuesListing("warning", "GET /api/users")) = 1
                    /\ Len(checked.report.critical_issues) = 1
                    /\ Len(checked.report.warnings) = 1

\* C8 witness: backend GET /api/users and frontend /api/other, checked, give
\* one critical issue listing /api/other and one warning listing the endpoint
C8_Witness ==
    /\ BothPresent
    /\ checked.backend.api_endpoints = <<[method |-> "GET", path |-> "/api/users"]>>
    /\ checked.frontend.api_calls = <<[endpoint |-> "/api/other"]>>
    /\ checked.result.score = 20 - 6 - 2
    /\ Len(checked.result.issues) = 2
    /\ checked.result.issues[1].severity = "critical"
    /\ checked.result.issues[1].description.listed = {"/api/other"}
    /\ checked.result.issues[2].severity = "warning"
    /\ checked.result.issues[2].description.listed = {"GET /api/users"}

-----------------------------------------------------------------------------
(* ============ Properties of validation of whole file maps ============= *)

C12_ReturnsBestSoFar ==
    (/\ pc = "done"
     /\ returned.success
     /\ cycle = max_refinement_cycles
     /\ ScoreBelow(returned.quality_score, generation.quality_target))
    => ~ScoreLess(returned.quality_score, best_assessed)

\* C13 (as claimed): every result that generate_code returns with
\* success = True carries at least one file, whatever the oracle answered
C13_SuccessHasFiles ==
    (pc = "done" /\ returned.success) => returned.code_files # <<>>

-----------------------------------------------------------------------------
(* Properties of the coordinator's assessment and refinement *)

\* the reports that _assess_cross_stack_quality has completed
ReportProduced == refinement.pc = "assessed"
CycleEvents == EventsOfType("quality_refinement_cycle")

\* C14 (as claimed): every report of an assessment has its cross-stack score
\* and its overall score between 0 and 10
C14_ScoresWithinScale ==
    ReportProduced =>
        /\ refinement.report.cross_stack_score >= 0
        /\ refinement.report.cross_stack_score <= Points(10)
        /\ refinement.report.overall_score >= 0
        /\ refinement.report.overall_score <= Points(10)

\* the arithmetic mean of the quality scores of the results in the mapping
MeanQualityScore(handler_results) ==
    LET given == {h \in {"backend", "frontend"} : handler_results[h].present}
        sum == (IF "backend" \in given THEN handler_results.backend.quality_score ELSE 0)
               + (IF "frontend" \in given THEN handler_results.frontend.quality_score ELSE 0)
    IN (sum * ScoreUnits) \div Cardinality(given)

FailedIn(rule) == {i \in 1..Len(rule.validators) : rule.results[i].raised}
ReturnedSum(rule) == rule_score([i \in 1..Len(rule.results) |->
                                    IF rule.results[i].raised THEN ValidatorResult(0, <<>>)
                                    ELSE rule.results[i]])
WarningNaming(rule_name, validator) ==
    \E i \in 1..Len(refinement.report.warnings) :
        /\ refinement.report.warnings[i].rule = rule_name
        /\ refinement.report.warnings[i].description.text = "Validator " \o validator \o " failed: "
\* C16 (as claimed): when a validator raises, the assessment still runs
\* every validator of every rule and completes, the report has a warning
\* naming the validator, and the validator counts with its default score in
\* the mean of its rule
C16_FailedCheckerCountsDefault ==
    ReportProduced =>
        /\ Len(refinement.rules) = Len(validation_rules)
        /\ \A r \in 1..Len(refinement.rules) :
             LET rule == refinement.rules[r]
             IN /\ Len(rule.results) = Len(validation_rules[r].validators)
                /\ \A i \in FailedIn(rule) : WarningNaming(rule.name, rule.validators[i])
                /\ rule.avg_rule_score * Len(rule.validators)
                     = (ReturnedSum(rule) + DefaultScore * Cardinality(FailedIn(rule))) * ScoreUnits

\* C17: validate_and_refine.  Every cycle assesses once more and publishes
\* one progress event, there are at most max_refinement_cycles cycles; an
\* initial report that meets the target is returned at once, without a
\* cycle and without an event; the loop ends at the first cycle whose report
\* meets the target; a report returned below the target comes after the
\* last cycle and carries the human review note.
C17_Cycles ==
    /\ refinement.cycle <= coordinator_max_refinement_cycles
    /\ refinement.pc \in {"assessing", "assessed"} =>
         /\ CycleEvents = (IF refinement.cycle = 0 THEN 0 ELSE refinement.cycle - 1)
         /\ refinement.assessments
              = refinement.cycle + (IF refinement.pc = "assessed" THEN 1 ELSE 0)
    /\ refinement.pc \in {"finishing", "done"} =>
         /\ CycleEvents = refinement.cycle
         /\ refinement.assessments = refinement.cycle + 1
         /\ refinement.current_report.refinement_cycles = refinement.cycle
    /\ refinement.returned =>
         \/ MeetsTarget(refinement.current_report, refinement.target_quality)
         \/ /\ refinement.cycle = coordinator_max_refinement_cycles
            /\ \E i \in 1..Len(refinement.current_report.recommendations) :
                 refinement.current_report.recommendations[i]
                   = HumanReviewNote(refinement.current_report.overall_score)
C17_Steps ==
    /\ (ReportProduced /\ refinement.cycle = 0
        /\ MeetsTarget(refinement.report, refinement.target_quality))
       => /\ refinement'.pc = "done" /\ refinement'.returned /\ refinement'.cycle = 0
          /\ refinement'.current_report = refinement.report
          /\ event_history' = event_history
    /\ (ReportProduced /\ refinement.cycle >= 1
        /\ MeetsTarget(refinement.report, refinement.target_quality))
       => refinement'.pc = "finishing" /\ refinement'.cycle = refinement.cycle
C17_CoordinatedRefinement == [](C17_Cycles) /\ [][C17_Steps]_vars
\* five cycles below the target, then the report with the note is returned
C17_Witness ==
    /\ refinement.returned
    /\ refinement.cycle = coordinator_max_refinement_cycles
    /\ CycleEvents = coordinator_max_refinement_cycles
    /\ refinement.assessments = coordinator_max_refinement_cycles + 1
    /\ ~MeetsTarget(refinement.current_report, refinement.target_quality)
    /\ refinement.current_report.recommendations
         = <<HumanReviewNote(refinement.current_report.overall_score)>>

-----------------------------------------------------------------------------
(* Properties of the refinement loop's termination and of its file map *)

\* score >= quality_target, from the sum and the number of the file scores
MeetsQualityTarget(score, target) ==
    score.files > 0 /\ score.total >= target * score.files

\* C18: an IMPROVE step is only made while the assessed score is below the
\* target and fewer than max_refinement_cycles steps were made; the loop is
\* left as soon as a score meets the target; a result whose initial score
\* meets the target is returned with refinement_cycles = 0.
C18_WhileImproving ==
    /\ cycle <= max_refinement_cycles
    /\ pc = "improve" =>
         /\ ~MeetsQualityTarget(current_result.quality_score, generation.quality_target)
         /\ cycle >= 1
    /\ (pc = "done" /\ returned.success) => returned.refinement_cycles = cycle
C18_LoopSteps ==
    /\ (pc # "improve" /\ pc' = "improve") => cycle' = cycle + 1
    /\ (pc = "refine" /\ MeetsQualityTarget(current_result.quality_score, generation.quality_target))
       => pc' = "finalize" /\ cycle' = cycle
    /\ (pc = "generate" /\ pc' \in {"refine", "finalize"}
        /\ MeetsQualityTarget(current_result'.quality_score, generation.quality_target))
       => /\ pc' = "finalize"
          /\ cycle' = 0
          /\ current_result'.refinement_cycles = 0
C18_StopsAtTarget == [](C18_WhileImproving) /\ [][C18_LoopSteps]_vars
\* the second IMPROVE step brought the score to the target and was the last
C18_Witness ==
    /\ pc = "done"
    /\ returned.success
    /\ returned.refinement_cycles = 2
    /\ cycle = 2
    /\ MeetsQualityTarget(returned.quality_score, generation.quality_target)
    /\ EventsOfType("refinement_cycle_completed") = 2

\* the paths of a file map, and the content a path maps to
PathsOf(code_files) == {code_files[i][1] : i \in 1..Len(code_files)}
ContentAt(code_files, file_path) ==
    code_files[CHOOSE i \in 1..Len(code_files) : code_files[i][1] = file_path][2]
\* new is old overridden by the files given: each given path maps to the
\* given content and every other path keeps its content
IsOverriddenBy(new, old, given) ==
    /\ PathsOf(new) = PathsOf(old) \cup PathsOf(given)
    /\ Len(new) = Cardinality(PathsOf(new))
    /\ \A file_path \in PathsOf(given) : ContentAt(new, file_path) = ContentAt(given, file_path)
    /\ \A file_path \in PathsOf(old) \ PathsOf(given) :
          ContentAt(new, file_path) = ContentAt(old, file_path)
\* an IMPROVE step in which the oracle responded
ImprovedWith(response) ==
    /\ pc = "improve"
    /\ pc' = "refine"
    /\ oracle_seen'.last = Outcome("response", response)

\* C19 (as claimed): after an IMPROVE step the file map is the previous
\* file map overridden by the files of the oracle's response, and no path
\* is lost
C19_Step ==
    \A response \in Responses :
        ImprovedWith(response) =>
            /\ IsOverriddenBy(current_result'.code_files, current_result.code_files, response.files)
            /\ PathsOf(current_result.code_files) \subseteq PathsOf(current_result'.code_files)
C19_MapOverriddenByResponse == [][C19_Step]_vars

-----------------------------------------------------------------------------
(* Properties of publish and its callback tasks *)

\* how many tasks for callback i of publish call p wait in the event loop
TasksReady(p, i) == Cardinality({k \in 1..Len(ready) : ready[k] = <<p, i>>})

\* C20: a publish call has returned only if every callback task created
\* for its event is done, whether the callback returned or raised; the tasks
\* are one for each subscriber the event type had when publish was called,
\* and each runs once.
C20_TasksSettled ==
    \A p \in 1..Len(pubs) :
        /\ pubs[p].state # "gathering" =>
              \A i \in 1..Len(pubs[p].results) : pubs[p].results[i] # "pending"
        /\ Len(pubs[p].results) = Len(pubs[p].callbacks)
        /\ \A i \in 1..Len(pubs[p].callbacks) :
              TasksReady(p, i) = (IF pubs[p].results[i] = "pending" THEN 1 ELSE 0)
C20_PublishSteps ==
    /\ Len(pubs') = Len(pubs) + 1 =>
          pubs'[Len(pubs')].callbacks = SubscribersOf(pubs'[Len(pubs')].event.event_type)
    /\ \A p \in 1..Len(pubs) : \A i \in 1..Len(pubs[p].results) :
          /\ pubs'[p].callbacks = pubs[p].callbacks
          /\ pubs[p].results[i] # "pending" => pubs'[p].results[i] = pubs[p].results[i]
C20_PublishWaitsForCallbacks == [](C20_TasksSettled) /\ [][C20_PublishSteps]_vars
\* publish has returned after two callbacks, one that raised and one that returned
C20_Witness ==
    \E p \in 1..Len(pubs) :
        /\ pubs[p].state = "returned"
        /\ Len(pubs[p].callbacks) = 2
        /\ pubs[p].callbacks[1] = HandlerCallback("raises")
        /\ pubs[p].callbacks[2] = HandlerCallback("returns")
        /\ pubs[p].results = <<"logged", "returned">>

-----------------------------------------------------------------------------
\* The events of the waited type published after the call of wait_for_event
MatchingSince(w) ==
    {p \in (waiters[w].since + 1)..Len(pubs) :
        pubs[p].event.event_type = waiters[w].event_type}
FirstMatching(w) == CHOOSE p \in MatchingSince(w) : \A q \in MatchingSince(w) : p <= q

\* C21 (state part): a future resolved by an event holds the first event of
\* its type published after the call; a future resolved by the timeout holds
\* the timeout failure, its timeout has expired and no event of its type was
\* published before the expiry; no publish raises.
C21_Outcome ==
    /\ \A w \in WaiterIds :
         /\ waiters[w].state = "event" =>
               /\ MatchingSince(w) # {}
               /\ waiters[w].result = pubs[FirstMatching(w)].event
         /\ waiters[w].state = "timeout" =>
               /\ waiters[w].result = <<>>
               /\ clock >= waiters[w].deadline
               /\ ~waiters[w].early
    /\ \A p \in 1..Len(pubs) : pubs[p].state # "raised"
\* C21 (step part): a resolved future keeps its outcome in every later step
C21_Steps ==
    \A w \in WaiterIds :
       done(waiters[w].state) =>
          /\ waiters'[w].state = waiters[w].state
          /\ waiters'[w].result = waiters[w].result
-----------------------------------------------------------------------------
\* The events published so far, in publication order
Published == [p \in 1..Len(pubs) |-> pubs[p].event]
\* C22: the event history holds at most max_history_size events, and they
\* are exactly the most recently published events in publication order.
C22_HistoryIsMostRecent ==
    /\ Len(event_history) <= max_history_size
    /\ Len(event_history) = (IF Len(pubs) <= max_history_size THEN Len(pubs)
                             ELSE max_history_size)
    /\ \A i \in 1..Len(event_history) :
          event_history[i] = Published[Len(pubs) - Len(event_history) + i]
\* C22 witness: more events than max_history_size were published, the two
\* oldest are gone and the history starts with the third.
C22_Witness ==
    /\ Len(pubs) = max_history_size + 2
    /\ Len(event_history) = max_history_size
    /\ event_history[1] = Published[3]
    /\ event_history[max_history_size] = Published[Len(pubs)]

-----------------------------------------------------------------------------
\* C23: frontend generation has not started unless backend generation has
\* returned, and validate_and_refine has not started unless both the backend
\* and the frontend generation have returned.
C23_BackendThenFrontendThenAssessment ==
    /\ pipeline.frontend.status # "none" => pipeline.backend.status = "returned"
    /\ refinement.pc # "idle" =>
          /\ pipeline.backend.status = "returned"
          /\ pipeline.frontend.status = "returned"
          /\ refinement.handler_results =
                HandlerResults(pipeline.backend.result, pipeline.frontend.result)
\* C23 witness: the assessment runs on a backend success and a frontend
\* failure, both returned.
C23_Witness ==
    /\ refinement.pc = "assessing"
    /\ pipeline.backend = Returned(TRUE, pipeline.backend.result)
    /\ pipeline.frontend = Returned(FALSE, FailedResult)

-----------------------------------------------------------------------------
\* The registry holds the contract of every registered feature and has its
\* endpoints and models indexed
InMemoryRegistered ==
    \A f \in DOMAIN feature_contracts :
       LET contract == feature_contracts[f]
       IN /\ contract.feature_name = f
          /\ \A i \in 1..Len(contract.endpoints) :
                \E k \in 1..Len(endpoint_registry) :
                   /\ endpoint_registry[k][2].path = contract.endpoints[i].path
                   /\ endpoint_registry[k][2].method = contract.endpoints[i].method
          /\ \A i \in 1..Len(contract.models) :
                \E k \in 1..Len(model_registry) :
                   model_registry[k][2].name = contract.models[i].name
\* C24 (as claimed): a register call whose contract file cannot be written
\* does not raise to its caller, and the in-memory registry holds the
\* contract as after a successful registration
C24_StorageFailureSwallowed ==
    reg_calls > 0 => (~reg_raised /\ InMemoryRegistered)

-----------------------------------------------------------------------------
\* Two different registered features declare endpoints with the same path
PathSharedByTwoFeatures ==
    \E f \in DOMAIN feature_contracts : \E g \in DOMAIN feature_contracts :
       /\ f # g
       /\ \E i \in 1..Len(feature_contracts[f].endpoints) :
          \E j \in 1..Len(feature_contracts[g].endpoints) :
             feature_contracts[f].endpoints[i].path = feature_contracts[g].endpoints[j].path
\* C25 (as claimed): validate_consistency() reports a duplicate endpoint
\* path exactly when two different registered features declare endpoints
\* with the same path, with different or with equal methods
C25_SharedPathReported ==
    PathSharedByTwoFeatures <=>
        validate_cross_stack_consistency.naming_conflicts = {"Duplicate endpoint paths detected"}

-----------------------------------------------------------------------------
\* The endpoints _register_api_contracts would register for a feature from
\* a file map
ContractEndpointsOf(handler_type, code_files, feature) ==
    LET eps == _extract_contracts(handler_type, code_files).api_endpoints
    IN [i \in 1..Len(eps) |-> APIEndpoint(eps[i].method, eps[i].path, feature)]
\* C26 (as claimed): after generate_code returned success, the registry
\* holds for every implemented feature the contract extracted from the file
\* map of the returned, post-refinement result
C26_RegistryHoldsReturnedContracts ==
    (pc = "done" /\ returned.success) =>
        \A i \in 1..Len(returned.features_implemented) :
           LET feature == returned.features_implemented[i]
               eps == ContractEndpointsOf(returned.handler_type, returned.code_files, feature)
           IN eps # <<>> =>
                 /\ feature \in DOMAIN feature_contracts
                 /\ feature_contracts[feature].endpoints = eps

-----------------------------------------------------------------------------
\* An oracle error that is neither an overload nor a rate limit
IsPermanent(message) ==
    /\ message # "message"
    /\ ~Contains(message, "overloaded") /\ ~Contains(message, "rate_limit")
\* C27 (as claimed): an invocation that fails with a permanent error is the
\* last invocation of its request, and the request has raised that error
C27_PermanentErrorPropagatesAtOnce ==
    \A i \in 1..Len(request.invocations) :
       IsPermanent(request.invocations[i]) =>
          /\ i = Len(request.invocations)
          /\ request.outcome = "raised"
          /\ request.error = request.invocations[i]

\* The invocations of the request that raised
FailedAttempts == {i \in 1..Len(request.invocations) : request.invocations[i] # "message"}
\* Every failure of the request so far was an overload or a rate limit
OnlyTransientFailures ==
    \A i \in FailedAttempts :
       Contains(request.invocations[i], "overloaded")
          \/ Contains(request.invocations[i], "rate_limit")
\* C28: a handler's request makes at most max_retries invocations; while
\* its failures are transient each failed attempt is followed by a wait
\* twice as long as the one before, and after max_retries of them the
\* request raises a fatal error; an invocation that returns ends the
\* request with its response.
C28_BoundedRetriesWithBackoff ==
    request.wrapper \in HandlerTypes =>
       /\ Len(request.invocations) <= max_retries
       /\ OnlyTransientFailures =>
             /\ Len(request.waits) =
                   Cardinality(FailedAttempts) - (IF request.pc = "backoff" THEN 1 ELSE 0)
             /\ \A k \in 2..Len(request.waits) : request.waits[k] = 2 * request.waits[k - 1]
             /\ request.outcome = "raised" <=> Len(request.waits) = max_retries
             /\ request.outcome = "raised" =>
                   request.error = "Max retries exceeded for Claude API"
       /\ \A i \in 1..Len(request.invocations) :
             request.invocations[i] = "message" =>
                /\ i = Len(request.invocations)
                /\ request.outcome = "returned"
                /\ request.pc = "done"
\* C28 witness: three transient failures with waits of 5, 10 and 20 seconds,
\* then the fatal error
C28_Witness ==
    /\ request.wrapper = "node_backend"
    /\ request.invocations = <<"overloaded_error", "rate_limit_error", "overloaded_error">>
    /\ request.waits = <<5, 10, 20>>
    /\ request.sleeps = <<0, 2, 4>>
    /\ request.outcome = "raised"
    /\ request.error = "Max retries exceeded for Claude API"

-----------------------------------------------------------------------------
ChunkIds(chunks) == {chunks[i].chunk_id : i \in 1..Len(chunks)}
\* C29 (as claimed): when the estimated tokens of the chunks exceed
\* max_tokens_per_request, every priority-1 chunk is still in the optimized
\* list and only chunks of priority 2 or higher are dropped
C29_CriticalChunksKept ==
    (context_chunks.done /\ TotalTokens(context_chunks.chunks) > max_tokens_per_request) =>
        \A i \in 1..Len(context_chunks.chunks) :
           LET chunk == context_chunks.chunks[i]
           IN chunk.chunk_id \notin ChunkIds(context_chunks.optimized) => chunk.priority >= 2

-----------------------------------------------------------------------------
\* Every frontend call target is the path of a backend endpoint and every
\* backend endpoint's path is called
PathsAgree ==
    LET eps == Range(checked.backend.api_endpoints)
        calls == Range(checked.frontend.api_calls)
    IN /\ \A call \in calls : \E ep \in eps : call.endpoint = ep.path
       /\ \A ep \in eps : \E call \in calls : call.endpoint = ep.path
\* C30 (as claimed): when the frontend's call targets and the backend's
\* endpoint paths agree, the API consistency check reports no issue and
\* scores 10
C30_MatchingPathsScoreTen ==
    (BothPresent /\ PathsAgree) =>
        /\ checked.result.score = 20
        /\ checked.result.issues = <<>>

-----------------------------------------------------------------------------
\* The issues the validator reports for the file map the call holds
CurrentIssues == QualityReportOf(generation.handler_type, current_result.code_files).issues
\* C31 (as claimed): while an improvement request is made, the issue list
\* of its prompt is the issue list the validator reports for the current
\* file map whenever that list is not empty
C31_PromptCarriesIssues ==
    (pc = "improve" /\ CurrentIssues # <<>>) => PromptIssues(current_result) = CurrentIssues

-----------------------------------------------------------------------------
\* The indexes hold nothing but what the contracts now stored declare
EndpointsOfStoredContracts ==
    \A k \in 1..Len(get_all_endpoints) :
       \E f \in DOMAIN feature_contracts : get_all_endpoints[k] \in Range(feature_contracts[f].endpoints)
ModelsOfStoredContracts ==
    \A k \in 1..Len(get_all_models) :
       \E f \in DOMAIN feature_contracts : get_all_models[k] \in Range(feature_contracts[f].models)
GraphOfStoredContracts ==
    \A f \in DOMAIN dependency_graph :
       /\ f \in DOMAIN feature_contracts
       /\ dependency_graph[f] = Range(feature_contracts[f].dependencies)
\* C32 (as claimed): after a feature is registered again the endpoint index,
\* the model index and the dependency graph reflect only the latest
\* contract of every feature
C32_ReRegistrationReplaces ==
    EndpointsOfStoredContracts /\ ModelsOfStoredContracts /\ GraphOfStoredContracts

-----------------------------------------------------------------------------
(* ===== C33: validator scores lie in [0, 10], overall is the mean ===== *)

RECURSIVE SumOfFileScores(_)
SumOfFileScores(file_scores) ==
    IF file_scores = <<>> THEN 0
    ELSE Head(file_scores)[2].score + SumOfFileScores(Tail(file_scores))

\* C33: in every report a Component Quality Validator returned, each per-file
\* score lies between 0 and 10 (0..20 half points), the overall score is the
\* sum of the per-file scores divided by the number of files, so it lies
\* between 0 and 10 too, and the report of an empty file map has overall
\* score 0.
C33_ScoresWithinScaleAndMean ==
    \A v \in 1..Len(validations) :
        LET report == validations[v].report
            files == Len(validations[v].code_files)
        IN /\ Len(report.file_scores) = files
           /\ \A k \in 1..files : report.file_scores[k][2].score \in 0..20
           /\ files > 0 =>
                /\ report.overall_score = Score(SumOfFileScores(report.file_scores), files)
                /\ report.overall_score.total \in 0..(20 * files)
           /\ files = 0 => report.overall_score = ZeroScore

\* C33 witness: a validator returned the report of a two-file map whose first
\* file lost more than 10 points and scored 0, and whose overall score is
\* half the score of the second file; and it returned the report of an empty
\* file map.
C33_Witness ==
    /\ \E v \in 1..Len(validations) :
         LET report == validations[v].report
             code_files == validations[v].code_files
         IN /\ Len(code_files) = 2
            /\ validations[v].handler_type = "node_backend"
            /\ Deducted(NodeChecks(code_files[1][1], code_files[1][2])) > 20
            /\ report.file_scores[1][2].score = 0
            /\ report.file_scores[2][2].score > 0
            /\ report.overall_score = Score(report.file_scores[2][2].score, 2)
    /\ \E v \in 1..Len(validations) : validations[v].code_files = <<>>

-----------------------------------------------------------------------------
(* ===== C34: one refinement event per cycle, after its re-validation === *)

RefinementEvents == EventsOfType("refinement_cycle_completed")

\* C34: a refinement loop publishes one refinement_cycle_completed event per
\* executed cycle, in cycle order; each is published after the re-validation
\* of its cycle and carries the score that re-validation assessed; and the
\* returned result counts as many refinement cycles as events were published.
C34_OneEventPerAssessedCycle ==
    /\ [](/\ pc \in {"refine", "finalize"} => RefinementEvents = cycle
          /\ (pc = "done" /\ returned.success) => RefinementEvents = returned.refinement_cycles)
    /\ [][RefinementEvents' # RefinementEvents =>
            /\ RefinementEvents' = cycle
            /\ oracle_seen'.last.kind = "response"
            /\ current_result'.quality_score =
                  _validate_code_quality(generation.handler_type,
                                         DictUpdate(current_result.code_files,
                                                    _parse_response(generation.handler_type,
                                                                    oracle_seen'.last.response)))]_vars

-----------------------------------------------------------------------------
(* ===== C35: the report holds the issues of the last pass only ========= *)

\* The issues the validators of the rules run in one pass returned, by
\* severity and in the order of the rules
RECURSIVE IssuesOfPass(_, _)
IssuesOfPass(rules, affected) ==
    IF rules = <<>>
    THEN [critical_issues |-> <<>>, warnings |-> <<>>, recommendations |-> <<>>]
    ELSE LET rule == Head(rules)
             first == Categorized(rule.name, rule_issues(rule.validators, rule.results, affected))
             rest == IssuesOfPass(Tail(rules), affected)
         IN [critical_issues |-> first.critical_issues \o rest.critical_issues,
             warnings |-> first.warnings \o rest.warnings,
             recommendations |-> first.recommendations \o rest.recommendations]
LastPass ==
    LET items == Items(refinement.handler_results)
    IN IssuesOfPass(refinement.rules, {items[i].name : i \in 1..Len(items)})
HoldsLastPass(report, notes) ==
    /\ report.critical_issues = LastPass.critical_issues
    /\ report.warnings = LastPass.warnings
    /\ report.recommendations = LastPass.recommendations \o notes

\* C35: the report of every assessment pass, the initial one and the one of
\* every coordinator cycle, lists exactly the issues that pass found; the
\* report validate_and_refine returns lists those of the last pass, with the
\* human-review note as one more recommendation when the target was missed;
\* and the results given to the coordinator are the same in every pass.
C35_ReportRebuiltEachPass ==
    /\ [](/\ refinement.pc = "assessed" => HoldsLastPass(refinement.report, <<>>)
          /\ refinement.pc = "finishing" => HoldsLastPass(refinement.current_report, <<>>)
          /\ refinement.pc = "done" =>
                \/ HoldsLastPass(refinement.current_report, <<>>)
                \/ /\ ~MeetsTarget(refinement.current_report, refinement.target_quality)
                   /\ HoldsLastPass(refinement.current_report,
                                     <<HumanReviewNote(refinement.current_report.overall_score)>>))
    /\ [][refinement.pc # "idle" => refinement'.handler_results = refinement.handler_results]_vars

\* C35 witness: validate_and_refine returned after five cycles, the last
\* pass found critical issues and warnings, and the returned report lists
\* them once, with the human-review note after the recommendations.
C35_Witness ==
    /\ refinement.pc = "done"
    /\ refinement.cycle = coordinator_max_refinement_cycles
    /\ refinement.current_report.refinement_cycles = coordinator_max_refinement_cycles
    /\ LastPass.critical_issues # <<>>
    /\ LastPass.warnings # <<>>
    /\ refinement.current_report.critical_issues = LastPass.critical_issues
    /\ Len(refinement.current_report.recommendations) = Len(LastPass.recommendations) + 1

-----------------------------------------------------------------------------
(* ===== C36: publish stores its event before it suspends =============== *)

\* the event of publish call p is in the history and in the correlation table
Stored(p) ==
    LET event == pubs[p].event
    IN /\ event \in Range(event_history)
       /\ event.correlation_id \in DOMAIN active_correlations
       /\ event.event_id \in Range(active_correlations[event.correlation_id])

\* C36: the event of every publish call that has started is in the history
\* and in the correlation table, so it is there before any of its callbacks
\* runs; and whatever way concurrent publish calls and the callbacks that
\* publish interleave, the history lists the events in the order in which
\* the publish calls started.
C36_StoredBeforeSuspension ==
    /\ [](/\ \A p \in 1..Len(pubs) : Stored(p)
          /\ event_history = [p \in 1..Len(pubs) |-> pubs[p].event])
    /\ [][\A p \in 1..Len(pubs) : \A i \in 1..Len(pubs[p].callbacks) :
            (ready # <<>> /\ Head(ready) = <<p, i>> /\ ready' # ready) => Stored(p)]_vars

\* C36 witness: two publish calls started while none of their callbacks had
\* run, then the callback of the first published a third event from inside;
\* the history holds the three events in that order, and the callback of the
\* second call has not run yet.
C36_Witness ==
    /\ Len(pubs) = 3
    /\ pubs[1].caller = NoCaller /\ pubs[2].caller = NoCaller
    /\ pubs[3].caller = <<1, 1>>
    /\ pubs[2].callbacks # <<>>
    /\ \A i \in 1..Len(pubs[2].callbacks) : pubs[2].results[i] = "pending"
    /\ event_history = <<pubs[1].event, pubs[2].event, pubs[3].event>>
    /\ Stored(3)

-----------------------------------------------------------------------------
(* ===== C37: the optimized chunks fit the token budget ================== *)

\* C37 (as claimed): the tokens_estimate of the chunks the context optimizer
\* returns, a truncated chunk with its mark included, add up to at most
\* max_tokens_per_request.
C37_OptimizedChunksFitBudget ==
    context_chunks.done => TotalTokens(context_chunks.optimized) <= max_tokens_per_request

-----------------------------------------------------------------------------
(* ===== C38: one terminal event and one history record ================= *)

CompletionEvents ==
    EventsOfType("node_backend_generation_completed")
    + EventsOfType("react_frontend_generation_completed")
FailureEvents == EventsOfType("handler_generation_failed")

\* C38: until generate_code returns it has published no terminal event and
\* stored no generation; when it returns success=True it has published one
\* completion event of its handler and no failure event and has appended one
\* record, of the returned result, to the generation history; when it
\* returns success=False it has published one failure event and no
\* completion event and the history is as it was.
C38_OneTerminalEvent ==
    /\ pc # "done" =>
         CompletionEvents = 0 /\ FailureEvents = 0 /\ generation_history = <<>>
    /\ (pc = "done" /\ returned.success) =>
         /\ EventsOfType(generation.handler_type \o "_generation_completed") = 1
         /\ CompletionEvents = 1 /\ FailureEvents = 0
         /\ Len(generation_history) = 1
         /\ generation_history[1].features = returned.features_implemented
         /\ generation_history[1].quality_score = returned.quality_score
         /\ generation_history[1].contracts = returned.contracts
    /\ (pc = "done" /\ ~returned.success) =>
         CompletionEvents = 0 /\ FailureEvents = 1 /\ generation_history = <<>>

\* C38 witness: a generate_code call returned success=True after at least
\* one refinement cycle, with one completion event published after the
\* refinement events and one record in the generation history.
C38_Witness ==
    /\ pc = "done" /\ returned.success
    /\ returned.refinement_cycles >= 1
    /\ CompletionEvents = 1
    /\ event_history[Len(event_history)].event_type = generation.handler_type \o "_generation_completed"
    /\ Len(generation_history) = 1

-----------------------------------------------------------------------------
(* ===== C39: a failed generation leaves the registry alone ============= *)

\* The registry holds what it held when generate_code was called: nothing
RegistryAsBefore ==
    /\ DOMAIN feature_contracts = {}
    /\ DOMAIN endpoint_registry = {}
    /\ DOMAIN model_registry = {}
    /\ DOMAIN dependency_graph = {}

\* C39 (as claimed): when generate_code returns a failure result, the
\* contracts, the endpoint index, the model index and the dependency graph
\* of the registry are what they were before the call, whichever step failed.
C39_FailureLeavesRegistry ==
    (pc = "done" /\ ~returned.success) => RegistryAsBefore

-----------------------------------------------------------------------------
(* ===== C40: a feature is reported iff it reaches a cycle =============== *)

\* the features reached from f along zero or more edges of E
ReachedFrom(E, f) == Closure(E, {f})
\* some cycle of E is reached from f
ReachesCycle(E, f) == \E g \in ReachedFrom(E, f) : OnCycle(E, g)

\* C40: validate_consistency() returns for every dependency graph the
\* registry can hold, and it reports a circular dependency in a feature
\* exactly when a cycle of the graph is reached from that feature along
\* dependency edges, whether or not the feature lies on the cycle itself.
C40_ReportedIffReachesCycle ==
    /\ validate_cross_stack_consistency.dependency_conflicts
          \subseteq {"Circular dependency in " \o f : f \in Features}
    /\ \A f \in Features : Reported(f) <=> ReachesCycle(GraphEdges, f)

\* C40 witness: a feature that is on no cycle, and none of whose
\* dependencies is on a cycle, reaches a cycle through a dependency of a
\* dependency and is reported; the feature on the cycle is reported too.
C40_Witness ==
    \E f \in Features :
        /\ ~OnCycle(GraphEdges, f)
        /\ GraphEdges[f] # {}
        /\ \A d \in GraphEdges[f] : ~OnCycle(GraphEdges, d)
        /\ ReachesCycle(GraphEdges, f)
        /\ Reported(f)
        /\ \E g \in Features : OnCycle(GraphEdges, g) /\ Reported(g)

====
